---- MODULE Spec2Model ----
(***************************************************************************)
(* A model of DACEspecDL's Star (src/DACEspecDL/Star.py): the lazily       *)
(* cached instrument -> pipeline -> observation-mode mapping, the          *)
(* traversal over it, the queries built on the traversal, and              *)
(* download_data with its on-disk idempotency check.                       *)
(*                                                                         *)
(* The state is one Star, the archive it reads, the filesystem it writes   *)
(* and its caller, who makes one call at a time and may hold a generator   *)
(* of data_to_iterate_over between its calls. Four specifications share    *)
(* it: Spec has every method, SpecQueries, SpecTraversal and SpecDownload  *)
(* have the methods of one kind over more arguments.                       *)
(*                                                                         *)
(* Python values are represented as follows.                               *)
(*   str        a sequence of characters, so that `in`, split, upper and   *)
(*              the matching of glob patterns are computed on characters;  *)
(*              an ASCII character is written as itself, another one by    *)
(*              its code point ("U+017F");                                 *)
(*   None       the one-element sequence None (no character is written     *)
(*              "<None>");                                                 *)
(*   dict       a sequence of [k, v] entries in insertion order;           *)
(*   list       a sequence;                                                *)
(*   Path       the sequence of its components;                            *)
(*   the leaf   a record metric name |-> value (only looked up by name).   *)
(***************************************************************************)
EXTENDS Integers, Sequences, FiniteSets, TLC

\* ------------------------------------------------------------------ str

None == <<"<None>">>

LowerCase == << "a","b","c","d","e","f","g","h","i","j","k","l","m",
                "n","o","p","q","r","s","t","u","v","w","x","y","z" >>

UpperCase == << "A","B","C","D","E","F","G","H","I","J","K","L","M",
                "N","O","P","Q","R","S","T","U","V","W","X","Y","Z" >>

\* The characters a string of this notation cannot hold are written by their
\* code point, in four hexadecimal digits or more: "U+017F" is the one
\* character LATIN SMALL LETTER LONG S, "U+00DF" the one character LATIN SMALL
\* LETTER SHARP S, "U+0060" the one character GRAVE ACCENT.
LONG_S  == "U+017F"
SHARP_S == "U+00DF"
GRAVE   == "U+0060"

\* The characters outside a-z that str.upper() changes, each with the str it
\* becomes: <<c, c.upper()>> for every such character c of Unicode 14.
SpecialCasing ==
    { <<"U+00B5", <<"U+039C">>>>, <<"U+00DF", <<"S", "S">>>>, <<"U+00E0", <<"U+00C0">>>>,
      <<"U+00E1", <<"U+00C1">>>>, <<"U+00E2", <<"U+00C2">>>>, <<"U+00E3", <<"U+00C3">>>>,
      <<"U+00E4", <<"U+00C4">>>>, <<"U+00E5", <<"U+00C5">>>>, <<"U+00E6", <<"U+00C6">>>>,
      <<"U+00E7", <<"U+00C7">>>>, <<"U+00E8", <<"U+00C8">>>>, <<"U+00E9", <<"U+00C9">>>>,
      <<"U+00EA", <<"U+00CA">>>>, <<"U+00EB", <<"U+00CB">>>>, <<"U+00EC", <<"U+00CC">>>>,
      <<"U+00ED", <<"U+00CD">>>>, <<"U+00EE", <<"U+00CE">>>>, <<"U+00EF", <<"U+00CF">>>>,
      <<"U+00F0", <<"U+00D0">>>>, <<"U+00F1", <<"U+00D1">>>>, <<"U+00F2", <<"U+00D2">>>>,
      <<"U+00F3", <<"U+00D3">>>>, <<"U+00F4", <<"U+00D4">>>>, <<"U+00F5", <<"U+00D5">>>>,
      <<"U+00F6", <<"U+00D6">>>>, <<"U+00F8", <<"U+00D8">>>>, <<"U+00F9", <<"U+00D9">>>>,
      <<"U+00FA", <<"U+00DA">>>>, <<"U+00FB", <<"U+00DB">>>>, <<"U+00FC", <<"U+00DC">>>>,
      <<"U+00FD", <<"U+00DD">>>>, <<"U+00FE", <<"U+00DE">>>>, <<"U+00FF", <<"U+0178">>>>,
      <<"U+0101", <<"U+0100">>>>, <<"U+0103", <<"U+0102">>>>, <<"U+0105", <<"U+0104">>>>,
      <<"U+0107", <<"U+0106">>>>, <<"U+0109", <<"U+0108">>>>, <<"U+010B", <<"U+010A">>>>,
      <<"U+010D", <<"U+010C">>>>, <<"U+010F", <<"U+010E">>>>, <<"U+0111", <<"U+0110">>>>,
      <<"U+0113", <<"U+0112">>>>, <<"U+0115", <<"U+0114">>>>, <<"U+0117", <<"U+0116">>>>,
      <<"U+0119", <<"U+0118">>>>, <<"U+011B", <<"U+011A">>>>, <<"U+011D", <<"U+011C">>>>,
      <<"U+011F", <<"U+011E">>>>, <<"U+0121", <<"U+0120">>>>, <<"U+0123", <<"U+0122">>>>,
      <<"U+0125", <<"U+0124">>>>, <<"U+0127", <<"U+0126">>>>, <<"U+0129", <<"U+0128">>>>,
      <<"U+012B", <<"U+012A">>>>, <<"U+012D", <<"U+012C">>>>, <<"U+012F", <<"U+012E">>>>,
      <<"U+0131", <<"I">>>>, <<"U+0133", <<"U+0132">>>>, <<"U+0135", <<"U+0134">>>>,
      <<"U+0137", <<"U+0136">>>>, <<"U+013A", <<"U+0139">>>>, <<"U+013C", <<"U+013B">>>>,
      <<"U+013E", <<"U+013D">>>>, <<"U+0140", <<"U+013F">>>>, <<"U+0142", <<"U+0141">>>>,
      <<"U+0144", <<"U+0143">>>>, <<"U+0146", <<"U+0145">>>>, <<"U+0148", <<"U+0147">>>>,
      <<"U+0149", <<"U+02BC", "N">>>>, <<"U+014B", <<"U+014A">>>>, <<"U+014D", <<"U+014C">>>>,
      <<"U+014F", <<"U+014E">>>>, <<"U+0151", <<"U+0150">>>>, <<"U+0153", <<"U+0152">>>>,
      <<"U+0155", <<"U+0154">>>>, <<"U+0157", <<"U+0156">>>>, <<"U+0159", <<"U+0158">>>>,
      <<"U+015B", <<"U+015A">>>>, <<"U+015D", <<"U+015C">>>>, <<"U+015F", <<"U+015E">>>>,
      <<"U+0161", <<"U+0160">>>>, <<"U+0163", <<"U+0162">>>>, <<"U+0165", <<"U+0164">>>>,
      <<"U+0167", <<"U+0166">>>>, <<"U+0169", <<"U+0168">>>>, <<"U+016B", <<"U+016A">>>>,
      <<"U+016D", <<"U+016C">>>>, <<"U+016F", <<"U+016E">>>>, <<"U+0171", <<"U+0170">>>>,
      <<"U+0173", <<"U+0172">>>>, <<"U+0175", <<"U+0174">>>>, <<"U+0177", <<"U+0176">>>>,
      <<"U+017A", <<"U+0179">>>>, <<"U+017C", <<"U+017B">>>>, <<"U+017E", <<"U+017D">>>>,
      <<"U+017F", <<"S">>>>, <<"U+0180", <<"U+0243">>>>, <<"U+0183", <<"U+0182">>>>,
      <<"U+0185", <<"U+0184">>>>, <<"U+0188", <<"U+0187">>>>, <<"U+018C", <<"U+018B">>>>,
      <<"U+0192", <<"U+0191">>>>, <<"U+0195", <<"U+01F6">>>>, <<"U+0199", <<"U+0198">>>>,
      <<"U+019A", <<"U+023D">>>>, <<"U+019E", <<"U+0220">>>>, <<"U+01A1", <<"U+01A0">>>>,
      <<"U+01A3", <<"U+01A2">>>>, <<"U+01A5", <<"U+01A4">>>>, <<"U+01A8", <<"U+01A7">>>>,
      <<"U+01AD", <<"U+01AC">>>>, <<"U+01B0", <<"U+01AF">>>>, <<"U+01B4", <<"U+01B3">>>>,
      <<"U+01B6", <<"U+01B5">>>>, <<"U+01B9", <<"U+01B8">>>>, <<"U+01BD", <<"U+01BC">>>>,
      <<"U+01BF", <<"U+01F7">>>>, <<"U+01C5", <<"U+01C4">>>>, <<"U+01C6", <<"U+01C4">>>>,
      <<"U+01C8", <<"U+01C7">>>>, <<"U+01C9", <<"U+01C7">>>>, <<"U+01CB", <<"U+01CA">>>>,
      <<"U+01CC", <<"U+01CA">>>>, <<"U+01CE", <<"U+01CD">>>>, <<"U+01D0", <<"U+01CF">>>>,
      <<"U+01D2", <<"U+01D1">>>>, <<"U+01D4", <<"U+01D3">>>>, <<"U+01D6", <<"U+01D5">>>>,
      <<"U+01D8", <<"U+01D7">>>>, <<"U+01DA", <<"U+01D9">>>>, <<"U+01DC", <<"U+01DB">>>>,
      <<"U+01DD", <<"U+018E">>>>, <<"U+01DF", <<"U+01DE">>>>, <<"U+01E1", <<"U+01E0">>>>,
      <<"U+01E3", <<"U+01E2">>>>, <<"U+01E5", <<"U+01E4">>>>, <<"U+01E7", <<"U+01E6">>>>,
      <<"U+01E9", <<"U+01E8">>>>, <<"U+01EB", <<"U+01EA">>>>, <<"U+01ED", <<"U+01EC">>>>,
      <<"U+01EF", <<"U+01EE">>>>, <<"U+01F0", <<"J", "U+030C">>>>, <<"U+01F2", <<"U+01F1">>>>,
      <<"U+01F3", <<"U+01F1">>>>, <<"U+01F5", <<"U+01F4">>>>, <<"U+01F9", <<"U+01F8">>>>,
      <<"U+01FB", <<"U+01FA">>>>, <<"U+01FD", <<"U+01FC">>>>, <<"U+01FF", <<"U+01FE">>>>,
      <<"U+0201", <<"U+0200">>>>, <<"U+0203", <<"U+0202">>>>, <<"U+0205", <<"U+0204">>>>,
      <<"U+0207", <<"U+0206">>>>, <<"U+0209", <<"U+0208">>>>, <<"U+020B", <<"U+020A">>>>,
      <<"U+020D", <<"U+020C">>>>, <<"U+020F", <<"U+020E">>>>, <<"U+0211", <<"U+0210">>>>,
      <<"U+0213", <<"U+0212">>>>, <<"U+0215", <<"U+0214">>>>, <<"U+0217", <<"U+0216">>>>,
      <<"U+0219", <<"U+0218">>>>, <<"U+021B", <<"U+021A">>>>, <<"U+021D", <<"U+021C">>>>,
      <<"U+021F", <<"U+021E">>>>, <<"U+0223", <<"U+0222">>>>, <<"U+0225", <<"U+0224">>>>,
      <<"U+0227", <<"U+0226">>>>, <<"U+0229", <<"U+0228">>>>, <<"U+022B", <<"U+022A">>>>,
      <<"U+022D", <<"U+022C">>>>, <<"U+022F", <<"U+022E">>>>, <<"U+0231", <<"U+0230">>>>,
      <<"U+0233", <<"U+0232">>>>, <<"U+023C", <<"U+023B">>>>, <<"U+023F", <<"U+2C7E">>>>,
      <<"U+0240", <<"U+2C7F">>>>, <<"U+0242", <<"U+0241">>>>, <<"U+0247", <<"U+0246">>>>,
      <<"U+0249", <<"U+0248">>>>, <<"U+024B", <<"U+024A">>>>, <<"U+024D", <<"U+024C">>>>,
      <<"U+024F", <<"U+024E">>>>, <<"U+0250", <<"U+2C6F">>>>, <<"U+0251", <<"U+2C6D">>>>,
      <<"U+0252", <<"U+2C70">>>>, <<"U+0253", <<"U+0181">>>>, <<"U+0254", <<"U+0186">>>>,
      <<"U+0256", <<"U+0189">>>>, <<"U+0257", <<"U+018A">>>>, <<"U+0259", <<"U+018F">>>>,
      <<"U+025B", <<"U+0190">>>>, <<"U+025C", <<"U+A7AB">>>>, <<"U+0260", <<"U+0193">>>>,
      <<"U+0261", <<"U+A7AC">>>>, <<"U+0263", <<"U+0194">>>>, <<"U+0265", <<"U+A78D">>>>,
      <<"U+0266", <<"U+A7AA">>>>, <<"U+0268", <<"U+0197">>>>, <<"U+0269", <<"U+0196">>>>,
      <<"U+026A", <<"U+A7AE">>>>, <<"U+026B", <<"U+2C62">>>>, <<"U+026C", <<"U+A7AD">>>>,
      <<"U+026F", <<"U+019C">>>>, <<"U+0271", <<"U+2C6E">>>>, <<"U+0272", <<"U+019D">>>>,
      <<"U+0275", <<"U+019F">>>>, <<"U+027D", <<"U+2C64">>>>, <<"U+0280", <<"U+01A6">>>>,
      <<"U+0282", <<"U+A7C5">>>>, <<"U+0283", <<"U+01A9">>>>, <<"U+0287", <<"U+A7B1">>>>,
      <<"U+0288", <<"U+01AE">>>>, <<"U+0289", <<"U+0244">>>>, <<"U+028A", <<"U+01B1">>>>,
      <<"U+028B", <<"U+01B2">>>>, <<"U+028C", <<"U+0245">>>>, <<"U+0292", <<"U+01B7">>>>,
      <<"U+029D", <<"U+A7B2">>>>, <<"U+029E", <<"U+A7B0">>>>, <<"U+0345", <<"U+0399">>>>,
      <<"U+0371", <<"U+0370">>>>, <<"U+0373", <<"U+0372">>>>, <<"U+0377", <<"U+0376">>>>,
      <<"U+037B", <<"U+03FD">>>>, <<"U+037C", <<"U+03FE">>>>, <<"U+037D", <<"U+03FF">>>>,
      <<"U+0390", <<"U+0399", "U+0308", "U+0301">>>>, <<"U+03AC", <<"U+0386">>>>, <<"U+03AD", <<"U+0388">>>>,
      <<"U+03AE", <<"U+0389">>>>, <<"U+03AF", <<"U+038A">>>>, <<"U+03B0", <<"U+03A5", "U+0308", "U+0301">>>>,
      <<"U+03B1", <<"U+0391">>>>, <<"U+03B2", <<"U+0392">>>>, <<"U+03B3", <<"U+0393">>>>,
      <<"U+03B4", <<"U+0394">>>>, <<"U+03B5", <<"U+0395">>>>, <<"U+03B6", <<"U+0396">>>>,
      <<"U+03B7", <<"U+0397">>>>, <<"U+03B8", <<"U+0398">>>>, <<"U+03B9", <<"U+0399">>>>,
      <<"U+03BA", <<"U+039A">>>>, <<"U+03BB", <<"U+039B">>>>, <<"U+03BC", <<"U+039C">>>>,
      <<"U+03BD", <<"U+039D">>>>, <<"U+03BE", <<"U+039E">>>>, <<"U+03BF", <<"U+039F">>>>,
      <<"U+03C0", <<"U+03A0">>>>, <<"U+03C1", <<"U+03A1">>>>, <<"U+03C2", <<"U+03A3">>>>,
      <<"U+03C3", <<"U+03A3">>>>, <<"U+03C4", <<"U+03A4">>>>, <<"U+03C5", <<"U+03A5">>>>,
      <<"U+03C6", <<"U+03A6">>>>, <<"U+03C7", <<"U+03A7">>>>, <<"U+03C8", <<"U+03A8">>>>,
      <<"U+03C9", <<"U+03A9">>>>, <<"U+03CA", <<"U+03AA">>>>, <<"U+03CB", <<"U+03AB">>>>,
      <<"U+03CC", <<"U+038C">>>>, <<"U+03CD", <<"U+038E">>>>, <<"U+03CE", <<"U+038F">>>>,
      <<"U+03D0", <<"U+0392">>>>, <<"U+03D1", <<"U+0398">>>>, <<"U+03D5", <<"U+03A6">>>>,
      <<"U+03D6", <<"U+03A0">>>>, <<"U+03D7", <<"U+03CF">>>>, <<"U+03D9", <<"U+03D8">>>>,
      <<"U+03DB", <<"U+03DA">>>>, <<"U+03DD", <<"U+03DC">>>>, <<"U+03DF", <<"U+03DE">>>>,
      <<"U+03E1", <<"U+03E0">>>>, <<"U+03E3", <<"U+03E2">>>>, <<"U+03E5", <<"U+03E4">>>>,
      <<"U+03E7", <<"U+03E6">>>>, <<"U+03E9", <<"U+03E8">>>>, <<"U+03EB", <<"U+03EA">>>>,
      <<"U+03ED", <<"U+03EC">>>>, <<"U+03EF", <<"U+03EE">>>>, <<"U+03F0", <<"U+039A">>>>,
      <<"U+03F1", <<"U+03A1">>>>, <<"U+03F2", <<"U+03F9">>>>, <<"U+03F3", <<"U+037F">>>>,
      <<"U+03F5", <<"U+0395">>>>, <<"U+03F8", <<"U+03F7">>>>, <<"U+03FB", <<"U+03FA">>>>,
      <<"U+0430", <<"U+0410">>>>, <<"U+0431", <<"U+0411">>>>, <<"U+0432", <<"U+0412">>>>,
      <<"U+0433", <<"U+0413">>>>, <<"U+0434", <<"U+0414">>>>, <<"U+0435", <<"U+0415">>>>,
      <<"U+0436", <<"U+0416">>>>, <<"U+0437", <<"U+0417">>>>, <<"U+0438", <<"U+0418">>>>,
      <<"U+0439", <<"U+0419">>>>, <<"U+043A", <<"U+041A">>>>, <<"U+043B", <<"U+041B">>>>,
      <<"U+043C", <<"U+041C">>>>, <<"U+043D", <<"U+041D">>>>, <<"U+043E", <<"U+041E">>>>,
      <<"U+043F", <<"U+041F">>>>, <<"U+0440", <<"U+0420">>>>, <<"U+0441", <<"U+0421">>>>,
      <<"U+0442", <<"U+0422">>>>, <<"U+0443", <<"U+0423">>>>, <<"U+0444", <<"U+0424">>>>,
      <<"U+0445", <<"U+0425">>>>, <<"U+0446", <<"U+0426">>>>, <<"U+0447", <<"U+0427">>>>,
      <<"U+0448", <<"U+0428">>>>, <<"U+0449", <<"U+0429">>>>, <<"U+044A", <<"U+042A">>>>,
      <<"U+044B", <<"U+042B">>>>, <<"U+044C", <<"U+042C">>>>, <<"U+044D", <<"U+042D">>>>,
      <<"U+044E", <<"U+042E">>>>, <<"U+044F", <<"U+042F">>>>, <<"U+0450", <<"U+0400">>>>,
      <<"U+0451", <<"U+0401">>>>, <<"U+0452", <<"U+0402">>>>, <<"U+0453", <<"U+0403">>>>,
      <<"U+0454", <<"U+0404">>>>, <<"U+0455", <<"U+0405">>>>, <<"U+0456", <<"U+0406">>>>,
      <<"U+0457", <<"U+0407">>>>, <<"U+0458", <<"U+0408">>>>, <<"U+0459", <<"U+0409">>>>,
      <<"U+045A", <<"U+040A">>>>, <<"U+045B", <<"U+040B">>>>, <<"U+045C", <<"U+040C">>>>,
      <<"U+045D", <<"U+040D">>>>, <<"U+045E", <<"U+040E">>>>, <<"U+045F", <<"U+040F">>>>,
      <<"U+0461", <<"U+0460">>>>, <<"U+0463", <<"U+0462">>>>, <<"U+0465", <<"U+0464">>>>,
      <<"U+0467", <<"U+0466">>>>, <<"U+0469", <<"U+0468">>>>, <<"U+046B", <<"U+046A">>>>,
      <<"U+046D", <<"U+046C">>>>, <<"U+046F", <<"U+046E">>>>, <<"U+0471", <<"U+0470">>>>,
      <<"U+0473", <<"U+0472">>>>, <<"U+0475", <<"U+0474">>>>, <<"U+0477", <<"U+0476">>>>,
      <<"U+0479", <<"U+0478">>>>, <<"U+047B", <<"U+047A">>>>, <<"U+047D", <<"U+047C">>>>,
      <<"U+047F", <<"U+047E">>>>, <<"U+0481", <<"U+0480">>>>, <<"U+048B", <<"U+048A">>>>,
      <<"U+048D", <<"U+048C">>>>, <<"U+048F", <<"U+048E">>>>, <<"U+0491", <<"U+0490">>>>,
      <<"U+0493", <<"U+0492">>>>, <<"U+0495", <<"U+0494">>>>, <<"U+0497", <<"U+0496">>>>,
      <<"U+0499", <<"U+0498">>>>, <<"U+049B", <<"U+049A">>>>, <<"U+049D", <<"U+049C">>>>,
      <<"U+049F", <<"U+049E">>>>, <<"U+04A1", <<"U+04A0">>>>, <<"U+04A3", <<"U+04A2">>>>,
      <<"U+04A5", <<"U+04A4">>>>, <<"U+04A7", <<"U+04A6">>>>, <<"U+04A9", <<"U+04A8">>>>,
      <<"U+04AB", <<"U+04AA">>>>, <<"U+04AD", <<"U+04AC">>>>, <<"U+04AF", <<"U+04AE">>>>,
      <<"U+04B1", <<"U+04B0">>>>, <<"U+04B3", <<"U+04B2">>>>, <<"U+04B5", <<"U+04B4">>>>,
      <<"U+04B7", <<"U+04B6">>>>, <<"U+04B9", <<"U+04B8">>>>, <<"U+04BB", <<"U+04BA">>>>,
      <<"U+04BD", <<"U+04BC">>>>, <<"U+04BF", <<"U+04BE">>>>, <<"U+04C2", <<"U+04C1">>>>,
      <<"U+04C4", <<"U+04C3">>>>, <<"U+04C6", <<"U+04C5">>>>, <<"U+04C8", <<"U+04C7">>>>,
      <<"U+04CA", <<"U+04C9">>>>, <<"U+04CC", <<"U+04CB">>>>, <<"U+04CE", <<"U+04CD">>>>,
      <<"U+04CF", <<"U+04C0">>>>, <<"U+04D1", <<"U+04D0">>>>, <<"U+04D3", <<"U+04D2">>>>,
      <<"U+04D5", <<"U+04D4">>>>, <<"U+04D7", <<"U+04D6">>>>, <<"U+04D9", <<"U+04D8">>>>,
      <<"U+04DB", <<"U+04DA">>>>, <<"U+04DD", <<"U+04DC">>>>, <<"U+04DF", <<"U+04DE">>>>,
      <<"U+04E1", <<"U+04E0">>>>, <<"U+04E3", <<"U+04E2">>>>, <<"U+04E5", <<"U+04E4">>>>,
      <<"U+04E7", <<"U+04E6">>>>, <<"U+04E9", <<"U+04E8">>>>, <<"U+04EB", <<"U+04EA">>>>,
      <<"U+04ED", <<"U+04EC">>>>, <<"U+04EF", <<"U+04EE">>>>, <<"U+04F1", <<"U+04F0">>>>,
      <<"U+04F3", <<"U+04F2">>>>, <<"U+04F5", <<"U+04F4">>>>, <<"U+04F7", <<"U+04F6">>>>,
      <<"U+04F9", <<"U+04F8">>>>, <<"U+04FB", <<"U+04FA">>>>, <<"U+04FD", <<"U+04FC">>>>,
      <<"U+04FF", <<"U+04FE">>>>, <<"U+0501", <<"U+0500">>>>, <<"U+0503", <<"U+0502">>>>,
      <<"U+0505", <<"U+0504">>>>, <<"U+0507", <<"U+0506">>>>, <<"U+0509", <<"U+0508">>>>,
      <<"U+050B", <<"U+050A">>>>, <<"U+050D", <<"U+050C">>>>, <<"U+050F", <<"U+050E">>>>,
      <<"U+0511", <<"U+0510">>>>, <<"U+0513", <<"U+0512">>>>, <<"U+0515", <<"U+0514">>>>,
      <<"U+0517", <<"U+0516">>>>, <<"U+0519", <<"U+0518">>>>, <<"U+051B", <<"U+051A">>>>,
      <<"U+051D", <<"U+051C">>>>, <<"U+051F", <<"U+051E">>>>, <<"U+0521", <<"U+0520">>>>,
      <<"U+0523", <<"U+0522">>>>, <<"U+0525", <<"U+0524">>>>, <<"U+0527", <<"U+0526">>>>,
      <<"U+0529", <<"U+0528">>>>, <<"U+052B", <<"U+052A">>>>, <<"U+052D", <<"U+052C">>>>,
      <<"U+052F", <<"U+052E">>>>, <<"U+0561", <<"U+0531">>>>, <<"U+0562", <<"U+0532">>>>,
      <<"U+0563", <<"U+0533">>>>, <<"U+0564", <<"U+0534">>>>, <<"U+0565", <<"U+0535">>>>,
      <<"U+0566", <<"U+0536">>>>, <<"U+0567", <<"U+0537">>>>, <<"U+0568", <<"U+0538">>>>,
      <<"U+0569", <<"U+0539">>>>, <<"U+056A", <<"U+053A">>>>, <<"U+056B", <<"U+053B">>>>,
      <<"U+056C", <<"U+053C">>>>, <<"U+056D", <<"U+053D">>>>, <<"U+056E", <<"U+053E">>>>,
      <<"U+056F", <<"U+053F">>>>, <<"U+0570", <<"U+0540">>>>, <<"U+0571", <<"U+0541">>>>,
      <<"U+0572", <<"U+0542">>>>, <<"U+0573", <<"U+0543">>>>, <<"U+0574", <<"U+0544">>>>,
      <<"U+0575", <<"U+0545">>>>, <<"U+0576", <<"U+0546">>>>, <<"U+0577", <<"U+0547">>>>,
      <<"U+0578", <<"U+0548">>>>, <<"U+0579", <<"U+0549">>>>, <<"U+057A", <<"U+054A">>>>,
      <<"U+057B", <<"U+054B">>>>, <<"U+057C", <<"U+054C">>>>, <<"U+057D", <<"U+054D">>>>,
      <<"U+057E", <<"U+054E">>>>, <<"U+057F", <<"U+054F">>>>, <<"U+0580", <<"U+0550">>>>,
      <<"U+0581", <<"U+0551">>>>, <<"U+0582", <<"U+0552">>>>, <<"U+0583", <<"U+0553">>>>,
      <<"U+0584", <<"U+0554">>>>, <<"U+0585", <<"U+0555">>>>, <<"U+0586", <<"U+0556">>>>,
      <<"U+0587", <<"U+0535", "U+0552">>>>, <<"U+10D0", <<"U+1C90">>>>, <<"U+10D1", <<"U+1C91">>>>,
      <<"U+10D2", <<"U+1C92">>>>, <<"U+10D3", <<"U+1C93">>>>, <<"U+10D4", <<"U+1C94">>>>,
      <<"U+10D5", <<"U+1C95">>>>, <<"U+10D6", <<"U+1C96">>>>, <<"U+10D7", <<"U+1C97">>>>,
      <<"U+10D8", <<"U+1C98">>>>, <<"U+10D9", <<"U+1C99">>>>, <<"U+10DA", <<"U+1C9A">>>>,
      <<"U+10DB", <<"U+1C9B">>>>, <<"U+10DC", <<"U+1C9C">>>>, <<"U+10DD", <<"U+1C9D">>>>,
      <<"U+10DE", <<"U+1C9E">>>>, <<"U+10DF", <<"U+1C9F">>>>, <<"U+10E0", <<"U+1CA0">>>>,
      <<"U+10E1", <<"U+1CA1">>>>, <<"U+10E2", <<"U+1CA2">>>>, <<"U+10E3", <<"U+1CA3">>>>,
      <<"U+10E4", <<"U+1CA4">>>>, <<"U+10E5", <<"U+1CA5">>>>, <<"U+10E6", <<"U+1CA6">>>>,
      <<"U+10E7", <<"U+1CA7">>>>, <<"U+10E8", <<"U+1CA8">>>>, <<"U+10E9", <<"U+1CA9">>>>,
      <<"U+10EA", <<"U+1CAA">>>>, <<"U+10EB", <<"U+1CAB">>>>, <<"U+10EC", <<"U+1CAC">>>>,
      <<"U+10ED", <<"U+1CAD">>>>, <<"U+10EE", <<"U+1CAE">>>>, <<"U+10EF", <<"U+1CAF">>>>,
      <<"U+10F0", <<"U+1CB0">>>>, <<"U+10F1", <<"U+1CB1">>>>, <<"U+10F2", <<"U+1CB2">>>>,
      <<"U+10F3", <<"U+1CB3">>>>, <<"U+10F4", <<"U+1CB4">>>>, <<"U+10F5", <<"U+1CB5">>>>,
      <<"U+10F6", <<"U+1CB6">>>>, <<"U+10F7", <<"U+1CB7">>>>, <<"U+10F8", <<"U+1CB8">>>>,
      <<"U+10F9", <<"U+1CB9">>>>, <<"U+10FA", <<"U+1CBA">>>>, <<"U+10FD", <<"U+1CBD">>>>,
      <<"U+10FE", <<"U+1CBE">>>>, <<"U+10FF", <<"U+1CBF">>>>, <<"U+13F8", <<"U+13F0">>>>,
      <<"U+13F9", <<"U+13F1">>>>, <<"U+13FA", <<"U+13F2">>>>, <<"U+13FB", <<"U+13F3">>>>,
      <<"U+13FC", <<"U+13F4">>>>, <<"U+13FD", <<"U+13F5">>>>, <<"U+1C80", <<"U+0412">>>>,
      <<"U+1C81", <<"U+0414">>>>, <<"U+1C82", <<"U+041E">>>>, <<"U+1C83", <<"U+0421">>>>,
      <<"U+1C84", <<"U+0422">>>>, <<"U+1C85", <<"U+0422">>>>, <<"U+1C86", <<"U+042A">>>>,
      <<"U+1C87", <<"U+0462">>>>, <<"U+1C88", <<"U+A64A">>>>, <<"U+1D79", <<"U+A77D">>>>,
      <<"U+1D7D", <<"U+2C63">>>>, <<"U+1D8E", <<"U+A7C6">>>>, <<"U+1E01", <<"U+1E00">>>>,
      <<"U+1E03", <<"U+1E02">>>>, <<"U+1E05", <<"U+1E04">>>>, <<"U+1E07", <<"U+1E06">>>>,
      <<"U+1E09", <<"U+1E08">>>>, <<"U+1E0B", <<"U+1E0A">>>>, <<"U+1E0D", <<"U+1E0C">>>>,
      <<"U+1E0F", <<"U+1E0E">>>>, <<"U+1E11", <<"U+1E10">>>>, <<"U+1E13", <<"U+1E12">>>>,
      <<"U+1E15", <<"U+1E14">>>>, <<"U+1E17", <<"U+1E16">>>>, <<"U+1E19", <<"U+1E18">>>>,
      <<"U+1E1B", <<"U+1E1A">>>>, <<"U+1E1D", <<"U+1E1C">>>>, <<"U+1E1F", <<"U+1E1E">>>>,
      <<"U+1E21", <<"U+1E20">>>>, <<"U+1E23", <<"U+1E22">>>>, <<"U+1E25", <<"U+1E24">>>>,
      <<"U+1E27", <<"U+1E26">>>>, <<"U+1E29", <<"U+1E28">>>>, <<"U+1E2B", <<"U+1E2A">>>>,
      <<"U+1E2D", <<"U+1E2C">>>>, <<"U+1E2F", <<"U+1E2E">>>>, <<"U+1E31", <<"U+1E30">>>>,
      <<"U+1E33", <<"U+1E32">>>>, <<"U+1E35", <<"U+1E34">>>>, <<"U+1E37", <<"U+1E36">>>>,
      <<"U+1E39", <<"U+1E38">>>>, <<"U+1E3B", <<"U+1E3A">>>>, <<"U+1E3D", <<"U+1E3C">>>>,
      <<"U+1E3F", <<"U+1E3E">>>>, <<"U+1E41", <<"U+1E40">>>>, <<"U+1E43", <<"U+1E42">>>>,
      <<"U+1E45", <<"U+1E44">>>>, <<"U+1E47", <<"U+1E46">>>>, <<"U+1E49", <<"U+1E48">>>>,
      <<"U+1E4B", <<"U+1E4A">>>>, <<"U+1E4D", <<"U+1E4C">>>>, <<"U+1E4F", <<"U+1E4E">>>>,
      <<"U+1E51", <<"U+1E50">>>>, <<"U+1E53", <<"U+1E52">>>>, <<"U+1E55", <<"U+1E54">>>>,
      <<"U+1E57", <<"U+1E56">>>>, <<"U+1E59", <<"U+1E58">>>>, <<"U+1E5B", <<"U+1E5A">>>>,
      <<"U+1E5D", <<"U+1E5C">>>>, <<"U+1E5F", <<"U+1E5E">>>>, <<"U+1E61", <<"U+1E60">>>>,
      <<"U+1E63", <<"U+1E62">>>>, <<"U+1E65", <<"U+1E64">>>>, <<"U+1E67", <<"U+1E66">>>>,
      <<"U+1E69", <<"U+1E68">>>>, <<"U+1E6B", <<"U+1E6A">>>>, <<"U+1E6D", <<"U+1E6C">>>>,
      <<"U+1E6F", <<"U+1E6E">>>>, <<"U+1E71", <<"U+1E70">>>>, <<"U+1E73", <<"U+1E72">>>>,
      <<"U+1E75", <<"U+1E74">>>>, <<"U+1E77", <<"U+1E76">>>>, <<"U+1E79", <<"U+1E78">>>>,
      <<"U+1E7B", <<"U+1E7A">>>>, <<"U+1E7D", <<"U+1E7C">>>>, <<"U+1E7F", <<"U+1E7E">>>>,
      <<"U+1E81", <<"U+1E80">>>>, <<"U+1E83", <<"U+1E82">>>>, <<"U+1E85", <<"U+1E84">>>>,
      <<"U+1E87", <<"U+1E86">>>>, <<"U+1E89", <<"U+1E88">>>>, <<"U+1E8B", <<"U+1E8A">>>>,
      <<"U+1E8D", <<"U+1E8C">>>>, <<"U+1E8F", <<"U+1E8E">>>>, <<"U+1E91", <<"U+1E90">>>>,
      <<"U+1E93", <<"U+1E92">>>>, <<"U+1E95", <<"U+1E94">>>>, <<"U+1E96", <<"H", "U+0331">>>>,
      <<"U+1E97", <<"T", "U+0308">>>>, <<"U+1E98", <<"W", "U+030A">>>>, <<"U+1E99", <<"Y", "U+030A">>>>,
      <<"U+1E9A", <<"A", "U+02BE">>>>, <<"U+1E9B", <<"U+1E60">>>>, <<"U+1EA1", <<"U+1EA0">>>>,
      <<"U+1EA3", <<"U+1EA2">>>>, <<"U+1EA5", <<"U+1EA4">>>>, <<"U+1EA7", <<"U+1EA6">>>>,
      <<"U+1EA9", <<"U+1EA8">>>>, <<"U+1EAB", <<"U+1EAA">>>>, <<"U+1EAD", <<"U+1EAC">>>>,
      <<"U+1EAF", <<"U+1EAE">>>>, <<"U+1EB1", <<"U+1EB0">>>>, <<"U+1EB3", <<"U+1EB2">>>>,
      <<"U+1EB5", <<"U+1EB4">>>>, <<"U+1EB7", <<"U+1EB6">>>>, <<"U+1EB9", <<"U+1EB8">>>>,
      <<"U+1EBB", <<"U+1EBA">>>>, <<"U+1EBD", <<"U+1EBC">>>>, <<"U+1EBF", <<"U+1EBE">>>>,
      <<"U+1EC1", <<"U+1EC0">>>>, <<"U+1EC3", <<"U+1EC2">>>>, <<"U+1EC5", <<"U+1EC4">>>>,
      <<"U+1EC7", <<"U+1EC6">>>>, <<"U+1EC9", <<"U+1EC8">>>>, <<"U+1ECB", <<"U+1ECA">>>>,
      <<"U+1ECD", <<"U+1ECC">>>>, <<"U+1ECF", <<"U+1ECE">>>>, <<"U+1ED1", <<"U+1ED0">>>>,
      <<"U+1ED3", <<"U+1ED2">>>>, <<"U+1ED5", <<"U+1ED4">>>>, <<"U+1ED7", <<"U+1ED6">>>>,
      <<"U+1ED9", <<"U+1ED8">>>>, <<"U+1EDB", <<"U+1EDA">>>>, <<"U+1EDD", <<"U+1EDC">>>>,
      <<"U+1EDF", <<"U+1EDE">>>>, <<"U+1EE1", <<"U+1EE0">>>>, <<"U+1EE3", <<"U+1EE2">>>>,
      <<"U+1EE5", <<"U+1EE4">>>>, <<"U+1EE7", <<"U+1EE6">>>>, <<"U+1EE9", <<"U+1EE8">>>>,
      <<"U+1EEB", <<"U+1EEA">>>>, <<"U+1EED", <<"U+1EEC">>>>, <<"U+1EEF", <<"U+1EEE">>>>,
      <<"U+1EF1", <<"U+1EF0">>>>, <<"U+1EF3", <<"U+1EF2">>>>, <<"U+1EF5", <<"U+1EF4">>>>,
      <<"U+1EF7", <<"U+1EF6">>>>, <<"U+1EF9", <<"U+1EF8">>>>, <<"U+1EFB", <<"U+1EFA">>>>,
      <<"U+1EFD", <<"U+1EFC">>>>, <<"U+1EFF", <<"U+1EFE">>>>, <<"U+1F00", <<"U+1F08">>>>,
      <<"U+1F01", <<"U+1F09">>>>, <<"U+1F02", <<"U+1F0A">>>>, <<"U+1F03", <<"U+1F0B">>>>,
      <<"U+1F04", <<"U+1F0C">>>>, <<"U+1F05", <<"U+1F0D">>>>, <<"U+1F06", <<"U+1F0E">>>>,
      <<"U+1F07", <<"U+1F0F">>>>, <<"U+1F10", <<"U+1F18">>>>, <<"U+1F11", <<"U+1F19">>>>,
      <<"U+1F12", <<"U+1F1A">>>>, <<"U+1F13", <<"U+1F1B">>>>, <<"U+1F14", <<"U+1F1C">>>>,
      <<"U+1F15", <<"U+1F1D">>>>, <<"U+1F20", <<"U+1F28">>>>, <<"U+1F21", <<"U+1F29">>>>,
      <<"U+1F22", <<"U+1F2A">>>>, <<"U+1F23", <<"U+1F2B">>>>, <<"U+1F24", <<"U+1F2C">>>>,
      <<"U+1F25", <<"U+1F2D">>>>, <<"U+1F26", <<"U+1F2E">>>>, <<"U+1F27", <<"U+1F2F">>>>,
      <<"U+1F30", <<"U+1F38">>>>, <<"U+1F31", <<"U+1F39">>>>, <<"U+1F32", <<"U+1F3A">>>>,
      <<"U+1F33", <<"U+1F3B">>>>, <<"U+1F34", <<"U+1F3C">>>>, <<"U+1F35", <<"U+1F3D">>>>,
      <<"U+1F36", <<"U+1F3E">>>>, <<"U+1F37", <<"U+1F3F">>>>, <<"U+1F40", <<"U+1F48">>>>,
      <<"U+1F41", <<"U+1F49">>>>, <<"U+1F42", <<"U+1F4A">>>>, <<"U+1F43", <<"U+1F4B">>>>,
      <<"U+1F44", <<"U+1F4C">>>>, <<"U+1F45", <<"U+1F4D">>>>, <<"U+1F50", <<"U+03A5", "U+0313">>>>,
      <<"U+1F51", <<"U+1F59">>>>, <<"U+1F52", <<"U+03A5", "U+0313", "U+0300">>>>, <<"U+1F53", <<"U+1F5B">>>>,
      <<"U+1F54", <<"U+03A5", "U+0313", "U+0301">>>>, <<"U+1F55", <<"U+1F5D">>>>,
      <<"U+1F56", <<"U+03A5", "U+0313", "U+0342">>>>, <<"U+1F57", <<"U+1F5F">>>>, <<"U+1F60", <<"U+1F68">>>>,
      <<"U+1F61", <<"U+1F69">>>>, <<"U+1F62", <<"U+1F6A">>>>, <<"U+1F63", <<"U+1F6B">>>>,
      <<"U+1F64", <<"U+1F6C">>>>, <<"U+1F65", <<"U+1F6D">>>>, <<"U+1F66", <<"U+1F6E">>>>,
      <<"U+1F67", <<"U+1F6F">>>>, <<"U+1F70", <<"U+1FBA">>>>, <<"U+1F71", <<"U+1FBB">>>>,
      <<"U+1F72", <<"U+1FC8">>>>, <<"U+1F73", <<"U+1FC9">>>>, <<"U+1F74", <<"U+1FCA">>>>,
      <<"U+1F75", <<"U+1FCB">>>>, <<"U+1F76", <<"U+1FDA">>>>, <<"U+1F77", <<"U+1FDB">>>>,
      <<"U+1F78", <<"U+1FF8">>>>, <<"U+1F79", <<"U+1FF9">>>>, <<"U+1F7A", <<"U+1FEA">>>>,
      <<"U+1F7B", <<"U+1FEB">>>>, <<"U+1F7C", <<"U+1FFA">>>>, <<"U+1F7D", <<"U+1FFB">>>>,
      <<"U+1F80", <<"U+1F08", "U+0399">>>>, <<"U+1F81", <<"U+1F09", "U+0399">>>>,
      <<"U+1F82", <<"U+1F0A", "U+0399">>>>, <<"U+1F83", <<"U+1F0B", "U+0399">>>>,
      <<"U+1F84", <<"U+1F0C", "U+0399">>>>, <<"U+1F85", <<"U+1F0D", "U+0399">>>>,
      <<"U+1F86", <<"U+1F0E", "U+0399">>>>, <<"U+1F87", <<"U+1F0F", "U+0399">>>>,
      <<"U+1F88", <<"U+1F08", "U+0399">>>>, <<"U+1F89", <<"U+1F09", "U+0399">>>>,
      <<"U+1F8A", <<"U+1F0A", "U+0399">>>>, <<"U+1F8B", <<"U+1F0B", "U+0399">>>>,
      <<"U+1F8C", <<"U+1F0C", "U+0399">>>>, <<"U+1F8D", <<"U+1F0D", "U+0399">>>>,
      <<"U+1F8E", <<"U+1F0E", "U+0399">>>>, <<"U+1F8F", <<"U+1F0F", "U+0399">>>>,
      <<"U+1F90", <<"U+1F28", "U+0399">>>>, <<"U+1F91", <<"U+1F29", "U+0399">>>>,
      <<"U+1F92", <<"U+1F2A", "U+0399">>>>, <<"U+1F93", <<"U+1F2B", "U+0399">>>>,
      <<"U+1F94", <<"U+1F2C", "U+0399">>>>, <<"U+1F95", <<"U+1F2D", "U+0399">>>>,
      <<"U+1F96", <<"U+1F2E", "U+0399">>>>, <<"U+1F97", <<"U+1F2F", "U+0399">>>>,
      <<"U+1F98", <<"U+1F28", "U+0399">>>>, <<"U+1F99", <<"U+1F29", "U+0399">>>>,
      <<"U+1F9A", <<"U+1F2A", "U+0399">>>>, <<"U+1F9B", <<"U+1F2B", "U+0399">>>>,
      <<"U+1F9C", <<"U+1F2C", "U+0399">>>>, <<"U+1F9D", <<"U+1F2D", "U+0399">>>>,
      <<"U+1F9E", <<"U+1F2E", "U+0399">>>>, <<"U+1F9F", <<"U+1F2F", "U+0399">>>>,
      <<"U+1FA0", <<"U+1F68", "U+0399">>>>, <<"U+1FA1", <<"U+1F69", "U+0399">>>>,
      <<"U+1FA2", <<"U+1F6A", "U+0399">>>>, <<"U+1FA3", <<"U+1F6B", "U+0399">>>>,
      <<"U+1FA4", <<"U+1F6C", "U+0399">>>>, <<"U+1FA5", <<"U+1F6D", "U+0399">>>>,
      <<"U+1FA6", <<"U+1F6E", "U+0399">>>>, <<"U+1FA7", <<"U+1F6F", "U+0399">>>>,
      <<"U+1FA8", <<"U+1F68", "U+0399">>>>, <<"U+1FA9", <<"U+1F69", "U+0399">>>>,
      <<"U+1FAA", <<"U+1F6A", "U+0399">>>>, <<"U+1FAB", <<"U+1F6B", "U+0399">>>>,
      <<"U+1FAC", <<"U+1F6C", "U+0399">>>>, <<"U+1FAD", <<"U+1F6D", "U+0399">>>>,
      <<"U+1FAE", <<"U+1F6E", "U+0399">>>>, <<"U+1FAF", <<"U+1F6F", "U+0399">>>>, <<"U+1FB0", <<"U+1FB8">>>>,
      <<"U+1FB1", <<"U+1FB9">>>>, <<"U+1FB2", <<"U+1FBA", "U+0399">>>>, <<"U+1FB3", <<"U+0391", "U+0399">>>>,
      <<"U+1FB4", <<"U+0386", "U+0399">>>>, <<"U+1FB6", <<"U+0391", "U+0342">>>>,
      <<"U+1FB7", <<"U+0391", "U+0342", "U+0399">>>>, <<"U+1FBC", <<"U+0391", "U+0399">>>>,
      <<"U+1FBE", <<"U+0399">>>>, <<"U+1FC2", <<"U+1FCA", "U+0399">>>>, <<"U+1FC3", <<"U+0397", "U+0399">>>>,
      <<"U+1FC4", <<"U+0389", "U+0399">>>>, <<"U+1FC6", <<"U+0397", "U+0342">>>>,
      <<"U+1FC7", <<"U+0397", "U+0342", "U+0399">>>>, <<"U+1FCC", <<"U+0397", "U+0399">>>>,
      <<"U+1FD0", <<"U+1FD8">>>>, <<"U+1FD1", <<"U+1FD9">>>>, <<"U+1FD2", <<"U+0399", "U+0308", "U+0300">>>>,
      <<"U+1FD3", <<"U+0399", "U+0308", "U+0301">>>>, <<"U+1FD6", <<"U+0399", "U+0342">>>>,
      <<"U+1FD7", <<"U+0399", "U+0308", "U+0342">>>>, <<"U+1FE0", <<"U+1FE8">>>>, <<"U+1FE1", <<"U+1FE9">>>>,
      <<"U+1FE2", <<"U+03A5", "U+0308", "U+0300">>>>, <<"U+1FE3", <<"U+03A5", "U+0308", "U+0301">>>>,
      <<"U+1FE4", <<"U+03A1", "U+0313">>>>, <<"U+1FE5", <<"U+1FEC">>>>, <<"U+1FE6", <<"U+03A5", "U+0342">>>>,
      <<"U+1FE7", <<"U+03A5", "U+0308", "U+0342">>>>, <<"U+1FF2", <<"U+1FFA", "U+0399">>>>,
      <<"U+1FF3", <<"U+03A9", "U+0399">>>>, <<"U+1FF4", <<"U+038F", "U+0399">>>>,
      <<"U+1FF6", <<"U+03A9", "U+0342">>>>, <<"U+1FF7", <<"U+03A9", "U+0342", "U+0399">>>>,
      <<"U+1FFC", <<"U+03A9", "U+0399">>>>, <<"U+214E", <<"U+2132">>>>, <<"U+2170", <<"U+2160">>>>,
      <<"U+2171", <<"U+2161">>>>, <<"U+2172", <<"U+2162">>>>, <<"U+2173", <<"U+2163">>>>,
      <<"U+2174", <<"U+2164">>>>, <<"U+2175", <<"U+2165">>>>, <<"U+2176", <<"U+2166">>>>,
      <<"U+2177", <<"U+2167">>>>, <<"U+2178", <<"U+2168">>>>, <<"U+2179", <<"U+2169">>>>,
      <<"U+217A", <<"U+216A">>>>, <<"U+217B", <<"U+216B">>>>, <<"U+217C", <<"U+216C">>>>,
      <<"U+217D", <<"U+216D">>>>, <<"U+217E", <<"U+216E">>>>, <<"U+217F", <<"U+216F">>>>,
      <<"U+2184", <<"U+2183">>>>, <<"U+24D0", <<"U+24B6">>>>, <<"U+24D1", <<"U+24B7">>>>,
      <<"U+24D2", <<"U+24B8">>>>, <<"U+24D3", <<"U+24B9">>>>, <<"U+24D4", <<"U+24BA">>>>,
      <<"U+24D5", <<"U+24BB">>>>, <<"U+24D6", <<"U+24BC">>>>, <<"U+24D7", <<"U+24BD">>>>,
      <<"U+24D8", <<"U+24BE">>>>, <<"U+24D9", <<"U+24BF">>>>, <<"U+24DA", <<"U+24C0">>>>,
      <<"U+24DB", <<"U+24C1">>>>, <<"U+24DC", <<"U+24C2">>>>, <<"U+24DD", <<"U+24C3">>>>,
      <<"U+24DE", <<"U+24C4">>>>, <<"U+24DF", <<"U+24C5">>>>, <<"U+24E0", <<"U+24C6">>>>,
      <<"U+24E1", <<"U+24C7">>>>, <<"U+24E2", <<"U+24C8">>>>, <<"U+24E3", <<"U+24C9">>>>,
      <<"U+24E4", <<"U+24CA">>>>, <<"U+24E5", <<"U+24CB">>>>, <<"U+24E6", <<"U+24CC">>>>,
      <<"U+24E7", <<"U+24CD">>>>, <<"U+24E8", <<"U+24CE">>>>, <<"U+24E9", <<"U+24CF">>>>,
      <<"U+2C30", <<"U+2C00">>>>, <<"U+2C31", <<"U+2C01">>>>, <<"U+2C32", <<"U+2C02">>>>,
      <<"U+2C33", <<"U+2C03">>>>, <<"U+2C34", <<"U+2C04">>>>, <<"U+2C35", <<"U+2C05">>>>,
      <<"U+2C36", <<"U+2C06">>>>, <<"U+2C37", <<"U+2C07">>>>, <<"U+2C38", <<"U+2C08">>>>,
      <<"U+2C39", <<"U+2C09">>>>, <<"U+2C3A", <<"U+2C0A">>>>, <<"U+2C3B", <<"U+2C0B">>>>,
      <<"U+2C3C", <<"U+2C0C">>>>, <<"U+2C3D", <<"U+2C0D">>>>, <<"U+2C3E", <<"U+2C0E">>>>,
      <<"U+2C3F", <<"U+2C0F">>>>, <<"U+2C40", <<"U+2C10">>>>, <<"U+2C41", <<"U+2C11">>>>,
      <<"U+2C42", <<"U+2C12">>>>, <<"U+2C43", <<"U+2C13">>>>, <<"U+2C44", <<"U+2C14">>>>,
      <<"U+2C45", <<"U+2C15">>>>, <<"U+2C46", <<"U+2C16">>>>, <<"U+2C47", <<"U+2C17">>>>,
      <<"U+2C48", <<"U+2C18">>>>, <<"U+2C49", <<"U+2C19">>>>, <<"U+2C4A", <<"U+2C1A">>>>,
      <<"U+2C4B", <<"U+2C1B">>>>, <<"U+2C4C", <<"U+2C1C">>>>, <<"U+2C4D", <<"U+2C1D">>>>,
      <<"U+2C4E", <<"U+2C1E">>>>, <<"U+2C4F", <<"U+2C1F">>>>, <<"U+2C50", <<"U+2C20">>>>,
      <<"U+2C51", <<"U+2C21">>>>, <<"U+2C52", <<"U+2C22">>>>, <<"U+2C53", <<"U+2C23">>>>,
      <<"U+2C54", <<"U+2C24">>>>, <<"U+2C55", <<"U+2C25">>>>, <<"U+2C56", <<"U+2C26">>>>,
      <<"U+2C57", <<"U+2C27">>>>, <<"U+2C58", <<"U+2C28">>>>, <<"U+2C59", <<"U+2C29">>>>,
      <<"U+2C5A", <<"U+2C2A">>>>, <<"U+2C5B", <<"U+2C2B">>>>, <<"U+2C5C", <<"U+2C2C">>>>,
      <<"U+2C5D", <<"U+2C2D">>>>, <<"U+2C5E", <<"U+2C2E">>>>, <<"U+2C5F", <<"U+2C2F">>>>,
      <<"U+2C61", <<"U+2C60">>>>, <<"U+2C65", <<"U+023A">>>>, <<"U+2C66", <<"U+023E">>>>,
      <<"U+2C68", <<"U+2C67">>>>, <<"U+2C6A", <<"U+2C69">>>>, <<"U+2C6C", <<"U+2C6B">>>>,
      <<"U+2C73", <<"U+2C72">>>>, <<"U+2C76", <<"U+2C75">>>>, <<"U+2C81", <<"U+2C80">>>>,
      <<"U+2C83", <<"U+2C82">>>>, <<"U+2C85", <<"U+2C84">>>>, <<"U+2C87", <<"U+2C86">>>>,
      <<"U+2C89", <<"U+2C88">>>>, <<"U+2C8B", <<"U+2C8A">>>>, <<"U+2C8D", <<"U+2C8C">>>>,
      <<"U+2C8F", <<"U+2C8E">>>>, <<"U+2C91", <<"U+2C90">>>>, <<"U+2C93", <<"U+2C92">>>>,
      <<"U+2C95", <<"U+2C94">>>>, <<"U+2C97", <<"U+2C96">>>>, <<"U+2C99", <<"U+2C98">>>>,
      <<"U+2C9B", <<"U+2C9A">>>>, <<"U+2C9D", <<"U+2C9C">>>>, <<"U+2C9F", <<"U+2C9E">>>>,
      <<"U+2CA1", <<"U+2CA0">>>>, <<"U+2CA3", <<"U+2CA2">>>>, <<"U+2CA5", <<"U+2CA4">>>>,
      <<"U+2CA7", <<"U+2CA6">>>>, <<"U+2CA9", <<"U+2CA8">>>>, <<"U+2CAB", <<"U+2CAA">>>>,
      <<"U+2CAD", <<"U+2CAC">>>>, <<"U+2CAF", <<"U+2CAE">>>>, <<"U+2CB1", <<"U+2CB0">>>>,
      <<"U+2CB3", <<"U+2CB2">>>>, <<"U+2CB5", <<"U+2CB4">>>>, <<"U+2CB7", <<"U+2CB6">>>>,
      <<"U+2CB9", <<"U+2CB8">>>>, <<"U+2CBB", <<"U+2CBA">>>>, <<"U+2CBD", <<"U+2CBC">>>>,
      <<"U+2CBF", <<"U+2CBE">>>>, <<"U+2CC1", <<"U+2CC0">>>>, <<"U+2CC3", <<"U+2CC2">>>>,
      <<"U+2CC5", <<"U+2CC4">>>>, <<"U+2CC7", <<"U+2CC6">>>>, <<"U+2CC9", <<"U+2CC8">>>>,
      <<"U+2CCB", <<"U+2CCA">>>>, <<"U+2CCD", <<"U+2CCC">>>>, <<"U+2CCF", <<"U+2CCE">>>>,
      <<"U+2CD1", <<"U+2CD0">>>>, <<"U+2CD3", <<"U+2CD2">>>>, <<"U+2CD5", <<"U+2CD4">>>>,
      <<"U+2CD7", <<"U+2CD6">>>>, <<"U+2CD9", <<"U+2CD8">>>>, <<"U+2CDB", <<"U+2CDA">>>>,
      <<"U+2CDD", <<"U+2CDC">>>>, <<"U+2CDF", <<"U+2CDE">>>>, <<"U+2CE1", <<"U+2CE0">>>>,
      <<"U+2CE3", <<"U+2CE2">>>>, <<"U+2CEC", <<"U+2CEB">>>>, <<"U+2CEE", <<"U+2CED">>>>,
      <<"U+2CF3", <<"U+2CF2">>>>, <<"U+2D00", <<"U+10A0">>>>, <<"U+2D01", <<"U+10A1">>>>,
      <<"U+2D02", <<"U+10A2">>>>, <<"U+2D03", <<"U+10A3">>>>, <<"U+2D04", <<"U+10A4">>>>,
      <<"U+2D05", <<"U+10A5">>>>, <<"U+2D06", <<"U+10A6">>>>, <<"U+2D07", <<"U+10A7">>>>,
      <<"U+2D08", <<"U+10A8">>>>, <<"U+2D09", <<"U+10A9">>>>, <<"U+2D0A", <<"U+10AA">>>>,
      <<"U+2D0B", <<"U+10AB">>>>, <<"U+2D0C", <<"U+10AC">>>>, <<"U+2D0D", <<"U+10AD">>>>,
      <<"U+2D0E", <<"U+10AE">>>>, <<"U+2D0F", <<"U+10AF">>>>, <<"U+2D10", <<"U+10B0">>>>,
      <<"U+2D11", <<"U+10B1">>>>, <<"U+2D12", <<"U+10B2">>>>, <<"U+2D13", <<"U+10B3">>>>,
      <<"U+2D14", <<"U+10B4">>>>, <<"U+2D15", <<"U+10B5">>>>, <<"U+2D16", <<"U+10B6">>>>,
      <<"U+2D17", <<"U+10B7">>>>, <<"U+2D18", <<"U+10B8">>>>, <<"U+2D19", <<"U+10B9">>>>,
      <<"U+2D1A", <<"U+10BA">>>>, <<"U+2D1B", <<"U+10BB">>>>, <<"U+2D1C", <<"U+10BC">>>>,
      <<"U+2D1D", <<"U+10BD">>>>, <<"U+2D1E", <<"U+10BE">>>>, <<"U+2D1F", <<"U+10BF">>>>,
      <<"U+2D20", <<"U+10C0">>>>, <<"U+2D21", <<"U+10C1">>>>, <<"U+2D22", <<"U+10C2">>>>,
      <<"U+2D23", <<"U+10C3">>>>, <<"U+2D24", <<"U+10C4">>>>, <<"U+2D25", <<"U+10C5">>>>,
      <<"U+2D27", <<"U+10C7">>>>, <<"U+2D2D", <<"U+10CD">>>>, <<"U+A641", <<"U+A640">>>>,
      <<"U+A643", <<"U+A642">>>>, <<"U+A645", <<"U+A644">>>>, <<"U+A647", <<"U+A646">>>>,
      <<"U+A649", <<"U+A648">>>>, <<"U+A64B", <<"U+A64A">>>>, <<"U+A64D", <<"U+A64C">>>>,
      <<"U+A64F", <<"U+A64E">>>>, <<"U+A651", <<"U+A650">>>>, <<"U+A653", <<"U+A652">>>>,
      <<"U+A655", <<"U+A654">>>>, <<"U+A657", <<"U+A656">>>>, <<"U+A659", <<"U+A658">>>>,
      <<"U+A65B", <<"U+A65A">>>>, <<"U+A65D", <<"U+A65C">>>>, <<"U+A65F", <<"U+A65E">>>>,
      <<"U+A661", <<"U+A660">>>>, <<"U+A663", <<"U+A662">>>>, <<"U+A665", <<"U+A664">>>>,
      <<"U+A667", <<"U+A666">>>>, <<"U+A669", <<"U+A668">>>>, <<"U+A66B", <<"U+A66A">>>>,
      <<"U+A66D", <<"U+A66C">>>>, <<"U+A681", <<"U+A680">>>>, <<"U+A683", <<"U+A682">>>>,
      <<"U+A685", <<"U+A684">>>>, <<"U+A687", <<"U+A686">>>>, <<"U+A689", <<"U+A688">>>>,
      <<"U+A68B", <<"U+A68A">>>>, <<"U+A68D", <<"U+A68C">>>>, <<"U+A68F", <<"U+A68E">>>>,
      <<"U+A691", <<"U+A690">>>>, <<"U+A693", <<"U+A692">>>>, <<"U+A695", <<"U+A694">>>>,
      <<"U+A697", <<"U+A696">>>>, <<"U+A699", <<"U+A698">>>>, <<"U+A69B", <<"U+A69A">>>>,
      <<"U+A723", <<"U+A722">>>>, <<"U+A725", <<"U+A724">>>>, <<"U+A727", <<"U+A726">>>>,
      <<"U+A729", <<"U+A728">>>>, <<"U+A72B", <<"U+A72A">>>>, <<"U+A72D", <<"U+A72C">>>>,
      <<"U+A72F", <<"U+A72E">>>>, <<"U+A733", <<"U+A732">>>>, <<"U+A735", <<"U+A734">>>>,
      <<"U+A737", <<"U+A736">>>>, <<"U+A739", <<"U+A738">>>>, <<"U+A73B", <<"U+A73A">>>>,
      <<"U+A73D", <<"U+A73C">>>>, <<"U+A73F", <<"U+A73E">>>>, <<"U+A741", <<"U+A740">>>>,
      <<"U+A743", <<"U+A742">>>>, <<"U+A745", <<"U+A744">>>>, <<"U+A747", <<"U+A746">>>>,
      <<"U+A749", <<"U+A748">>>>, <<"U+A74B", <<"U+A74A">>>>, <<"U+A74D", <<"U+A74C">>>>,
      <<"U+A74F", <<"U+A74E">>>>, <<"U+A751", <<"U+A750">>>>, <<"U+A753", <<"U+A752">>>>,
      <<"U+A755", <<"U+A754">>>>, <<"U+A757", <<"U+A756">>>>, <<"U+A759", <<"U+A758">>>>,
      <<"U+A75B", <<"U+A75A">>>>, <<"U+A75D", <<"U+A75C">>>>, <<"U+A75F", <<"U+A75E">>>>,
      <<"U+A761", <<"U+A760">>>>, <<"U+A763", <<"U+A762">>>>, <<"U+A765", <<"U+A764">>>>,
      <<"U+A767", <<"U+A766">>>>, <<"U+A769", <<"U+A768">>>>, <<"U+A76B", <<"U+A76A">>>>,
      <<"U+A76D", <<"U+A76C">>>>, <<"U+A76F", <<"U+A76E">>>>, <<"U+A77A", <<"U+A779">>>>,
      <<"U+A77C", <<"U+A77B">>>>, <<"U+A77F", <<"U+A77E">>>>, <<"U+A781", <<"U+A780">>>>,
      <<"U+A783", <<"U+A782">>>>, <<"U+A785", <<"U+A784">>>>, <<"U+A787", <<"U+A786">>>>,
      <<"U+A78C", <<"U+A78B">>>>, <<"U+A791", <<"U+A790">>>>, <<"U+A793", <<"U+A792">>>>,
      <<"U+A794", <<"U+A7C4">>>>, <<"U+A797", <<"U+A796">>>>, <<"U+A799", <<"U+A798">>>>,
      <<"U+A79B", <<"U+A79A">>>>, <<"U+A79D", <<"U+A79C">>>>, <<"U+A79F", <<"U+A79E">>>>,
      <<"U+A7A1", <<"U+A7A0">>>>, <<"U+A7A3", <<"U+A7A2">>>>, <<"U+A7A5", <<"U+A7A4">>>>,
      <<"U+A7A7", <<"U+A7A6">>>>, <<"U+A7A9", <<"U+A7A8">>>>, <<"U+A7B5", <<"U+A7B4">>>>,
      <<"U+A7B7", <<"U+A7B6">>>>, <<"U+A7B9", <<"U+A7B8">>>>, <<"U+A7BB", <<"U+A7BA">>>>,
      <<"U+A7BD", <<"U+A7BC">>>>, <<"U+A7BF", <<"U+A7BE">>>>, <<"U+A7C1", <<"U+A7C0">>>>,
      <<"U+A7C3", <<"U+A7C2">>>>, <<"U+A7C8", <<"U+A7C7">>>>, <<"U+A7CA", <<"U+A7C9">>>>,
      <<"U+A7D1", <<"U+A7D0">>>>, <<"U+A7D7", <<"U+A7D6">>>>, <<"U+A7D9", <<"U+A7D8">>>>,
      <<"U+A7F6", <<"U+A7F5">>>>, <<"U+AB53", <<"U+A7B3">>>>, <<"U+AB70", <<"U+13A0">>>>,
      <<"U+AB71", <<"U+13A1">>>>, <<"U+AB72", <<"U+13A2">>>>, <<"U+AB73", <<"U+13A3">>>>,
      <<"U+AB74", <<"U+13A4">>>>, <<"U+AB75", <<"U+13A5">>>>, <<"U+AB76", <<"U+13A6">>>>,
      <<"U+AB77", <<"U+13A7">>>>, <<"U+AB78", <<"U+13A8">>>>, <<"U+AB79", <<"U+13A9">>>>,
      <<"U+AB7A", <<"U+13AA">>>>, <<"U+AB7B", <<"U+13AB">>>>, <<"U+AB7C", <<"U+13AC">>>>,
      <<"U+AB7D", <<"U+13AD">>>>, <<"U+AB7E", <<"U+13AE">>>>, <<"U+AB7F", <<"U+13AF">>>>,
      <<"U+AB80", <<"U+13B0">>>>, <<"U+AB81", <<"U+13B1">>>>, <<"U+AB82", <<"U+13B2">>>>,
      <<"U+AB83", <<"U+13B3">>>>, <<"U+AB84", <<"U+13B4">>>>, <<"U+AB85", <<"U+13B5">>>>,
      <<"U+AB86", <<"U+13B6">>>>, <<"U+AB87", <<"U+13B7">>>>, <<"U+AB88", <<"U+13B8">>>>,
      <<"U+AB89", <<"U+13B9">>>>, <<"U+AB8A", <<"U+13BA">>>>, <<"U+AB8B", <<"U+13BB">>>>,
      <<"U+AB8C", <<"U+13BC">>>>, <<"U+AB8D", <<"U+13BD">>>>, <<"U+AB8E", <<"U+13BE">>>>,
      <<"U+AB8F", <<"U+13BF">>>>, <<"U+AB90", <<"U+13C0">>>>, <<"U+AB91", <<"U+13C1">>>>,
      <<"U+AB92", <<"U+13C2">>>>, <<"U+AB93", <<"U+13C3">>>>, <<"U+AB94", <<"U+13C4">>>>,
      <<"U+AB95", <<"U+13C5">>>>, <<"U+AB96", <<"U+13C6">>>>, <<"U+AB97", <<"U+13C7">>>>,
      <<"U+AB98", <<"U+13C8">>>>, <<"U+AB99", <<"U+13C9">>>>, <<"U+AB9A", <<"U+13CA">>>>,
      <<"U+AB9B", <<"U+13CB">>>>, <<"U+AB9C", <<"U+13CC">>>>, <<"U+AB9D", <<"U+13CD">>>>,
      <<"U+AB9E", <<"U+13CE">>>>, <<"U+AB9F", <<"U+13CF">>>>, <<"U+ABA0", <<"U+13D0">>>>,
      <<"U+ABA1", <<"U+13D1">>>>, <<"U+ABA2", <<"U+13D2">>>>, <<"U+ABA3", <<"U+13D3">>>>,
      <<"U+ABA4", <<"U+13D4">>>>, <<"U+ABA5", <<"U+13D5">>>>, <<"U+ABA6", <<"U+13D6">>>>,
      <<"U+ABA7", <<"U+13D7">>>>, <<"U+ABA8", <<"U+13D8">>>>, <<"U+ABA9", <<"U+13D9">>>>,
      <<"U+ABAA", <<"U+13DA">>>>, <<"U+ABAB", <<"U+13DB">>>>, <<"U+ABAC", <<"U+13DC">>>>,
      <<"U+ABAD", <<"U+13DD">>>>, <<"U+ABAE", <<"U+13DE">>>>, <<"U+ABAF", <<"U+13DF">>>>,
      <<"U+ABB0", <<"U+13E0">>>>, <<"U+ABB1", <<"U+13E1">>>>, <<"U+ABB2", <<"U+13E2">>>>,
      <<"U+ABB3", <<"U+13E3">>>>, <<"U+ABB4", <<"U+13E4">>>>, <<"U+ABB5", <<"U+13E5">>>>,
      <<"U+ABB6", <<"U+13E6">>>>, <<"U+ABB7", <<"U+13E7">>>>, <<"U+ABB8", <<"U+13E8">>>>,
      <<"U+ABB9", <<"U+13E9">>>>, <<"U+ABBA", <<"U+13EA">>>>, <<"U+ABBB", <<"U+13EB">>>>,
      <<"U+ABBC", <<"U+13EC">>>>, <<"U+ABBD", <<"U+13ED">>>>, <<"U+ABBE", <<"U+13EE">>>>,
      <<"U+ABBF", <<"U+13EF">>>>, <<"U+FB00", <<"F", "F">>>>, <<"U+FB01", <<"F", "I">>>>,
      <<"U+FB02", <<"F", "L">>>>, <<"U+FB03", <<"F", "F", "I">>>>, <<"U+FB04", <<"F", "F", "L">>>>,
      <<"U+FB05", <<"S", "T">>>>, <<"U+FB06", <<"S", "T">>>>, <<"U+FB13", <<"U+0544", "U+0546">>>>,
      <<"U+FB14", <<"U+0544", "U+0535">>>>, <<"U+FB15", <<"U+0544", "U+053B">>>>,
      <<"U+FB16", <<"U+054E", "U+0546">>>>, <<"U+FB17", <<"U+0544", "U+053D">>>>, <<"U+FF41", <<"U+FF21">>>>,
      <<"U+FF42", <<"U+FF22">>>>, <<"U+FF43", <<"U+FF23">>>>, <<"U+FF44", <<"U+FF24">>>>,
      <<"U+FF45", <<"U+FF25">>>>, <<"U+FF46", <<"U+FF26">>>>, <<"U+FF47", <<"U+FF27">>>>,
      <<"U+FF48", <<"U+FF28">>>>, <<"U+FF49", <<"U+FF29">>>>, <<"U+FF4A", <<"U+FF2A">>>>,
      <<"U+FF4B", <<"U+FF2B">>>>, <<"U+FF4C", <<"U+FF2C">>>>, <<"U+FF4D", <<"U+FF2D">>>>,
      <<"U+FF4E", <<"U+FF2E">>>>, <<"U+FF4F", <<"U+FF2F">>>>, <<"U+FF50", <<"U+FF30">>>>,
      <<"U+FF51", <<"U+FF31">>>>, <<"U+FF52", <<"U+FF32">>>>, <<"U+FF53", <<"U+FF33">>>>,
      <<"U+FF54", <<"U+FF34">>>>, <<"U+FF55", <<"U+FF35">>>>, <<"U+FF56", <<"U+FF36">>>>,
      <<"U+FF57", <<"U+FF37">>>>, <<"U+FF58", <<"U+FF38">>>>, <<"U+FF59", <<"U+FF39">>>>,
      <<"U+FF5A", <<"U+FF3A">>>>, <<"U+10428", <<"U+10400">>>>, <<"U+10429", <<"U+10401">>>>,
      <<"U+1042A", <<"U+10402">>>>, <<"U+1042B", <<"U+10403">>>>, <<"U+1042C", <<"U+10404">>>>,
      <<"U+1042D", <<"U+10405">>>>, <<"U+1042E", <<"U+10406">>>>, <<"U+1042F", <<"U+10407">>>>,
      <<"U+10430", <<"U+10408">>>>, <<"U+10431", <<"U+10409">>>>, <<"U+10432", <<"U+1040A">>>>,
      <<"U+10433", <<"U+1040B">>>>, <<"U+10434", <<"U+1040C">>>>, <<"U+10435", <<"U+1040D">>>>,
      <<"U+10436", <<"U+1040E">>>>, <<"U+10437", <<"U+1040F">>>>, <<"U+10438", <<"U+10410">>>>,
      <<"U+10439", <<"U+10411">>>>, <<"U+1043A", <<"U+10412">>>>, <<"U+1043B", <<"U+10413">>>>,
      <<"U+1043C", <<"U+10414">>>>, <<"U+1043D", <<"U+10415">>>>, <<"U+1043E", <<"U+10416">>>>,
      <<"U+1043F", <<"U+10417">>>>, <<"U+10440", <<"U+10418">>>>, <<"U+10441", <<"U+10419">>>>,
      <<"U+10442", <<"U+1041A">>>>, <<"U+10443", <<"U+1041B">>>>, <<"U+10444", <<"U+1041C">>>>,
      <<"U+10445", <<"U+1041D">>>>, <<"U+10446", <<"U+1041E">>>>, <<"U+10447", <<"U+1041F">>>>,
      <<"U+10448", <<"U+10420">>>>, <<"U+10449", <<"U+10421">>>>, <<"U+1044A", <<"U+10422">>>>,
      <<"U+1044B", <<"U+10423">>>>, <<"U+1044C", <<"U+10424">>>>, <<"U+1044D", <<"U+10425">>>>,
      <<"U+1044E", <<"U+10426">>>>, <<"U+1044F", <<"U+10427">>>>, <<"U+104D8", <<"U+104B0">>>>,
      <<"U+104D9", <<"U+104B1">>>>, <<"U+104DA", <<"U+104B2">>>>, <<"U+104DB", <<"U+104B3">>>>,
      <<"U+104DC", <<"U+104B4">>>>, <<"U+104DD", <<"U+104B5">>>>, <<"U+104DE", <<"U+104B6">>>>,
      <<"U+104DF", <<"U+104B7">>>>, <<"U+104E0", <<"U+104B8">>>>, <<"U+104E1", <<"U+104B9">>>>,
      <<"U+104E2", <<"U+104BA">>>>, <<"U+104E3", <<"U+104BB">>>>, <<"U+104E4", <<"U+104BC">>>>,
      <<"U+104E5", <<"U+104BD">>>>, <<"U+104E6", <<"U+104BE">>>>, <<"U+104E7", <<"U+104BF">>>>,
      <<"U+104E8", <<"U+104C0">>>>, <<"U+104E9", <<"U+104C1">>>>, <<"U+104EA", <<"U+104C2">>>>,
      <<"U+104EB", <<"U+104C3">>>>, <<"U+104EC", <<"U+104C4">>>>, <<"U+104ED", <<"U+104C5">>>>,
      <<"U+104EE", <<"U+104C6">>>>, <<"U+104EF", <<"U+104C7">>>>, <<"U+104F0", <<"U+104C8">>>>,
      <<"U+104F1", <<"U+104C9">>>>, <<"U+104F2", <<"U+104CA">>>>, <<"U+104F3", <<"U+104CB">>>>,
      <<"U+104F4", <<"U+104CC">>>>, <<"U+104F5", <<"U+104CD">>>>, <<"U+104F6", <<"U+104CE">>>>,
      <<"U+104F7", <<"U+104CF">>>>, <<"U+104F8", <<"U+104D0">>>>, <<"U+104F9", <<"U+104D1">>>>,
      <<"U+104FA", <<"U+104D2">>>>, <<"U+104FB", <<"U+104D3">>>>, <<"U+10597", <<"U+10570">>>>,
      <<"U+10598", <<"U+10571">>>>, <<"U+10599", <<"U+10572">>>>, <<"U+1059A", <<"U+10573">>>>,
      <<"U+1059B", <<"U+10574">>>>, <<"U+1059C", <<"U+10575">>>>, <<"U+1059D", <<"U+10576">>>>,
      <<"U+1059E", <<"U+10577">>>>, <<"U+1059F", <<"U+10578">>>>, <<"U+105A0", <<"U+10579">>>>,
      <<"U+105A1", <<"U+1057A">>>>, <<"U+105A3", <<"U+1057C">>>>, <<"U+105A4", <<"U+1057D">>>>,
      <<"U+105A5", <<"U+1057E">>>>, <<"U+105A6", <<"U+1057F">>>>, <<"U+105A7", <<"U+10580">>>>,
      <<"U+105A8", <<"U+10581">>>>, <<"U+105A9", <<"U+10582">>>>, <<"U+105AA", <<"U+10583">>>>,
      <<"U+105AB", <<"U+10584">>>>, <<"U+105AC", <<"U+10585">>>>, <<"U+105AD", <<"U+10586">>>>,
      <<"U+105AE", <<"U+10587">>>>, <<"U+105AF", <<"U+10588">>>>, <<"U+105B0", <<"U+10589">>>>,
      <<"U+105B1", <<"U+1058A">>>>, <<"U+105B3", <<"U+1058C">>>>, <<"U+105B4", <<"U+1058D">>>>,
      <<"U+105B5", <<"U+1058E">>>>, <<"U+105B6", <<"U+1058F">>>>, <<"U+105B7", <<"U+10590">>>>,
      <<"U+105B8", <<"U+10591">>>>, <<"U+105B9", <<"U+10592">>>>, <<"U+105BB", <<"U+10594">>>>,
      <<"U+105BC", <<"U+10595">>>>, <<"U+10CC0", <<"U+10C80">>>>, <<"U+10CC1", <<"U+10C81">>>>,
      <<"U+10CC2", <<"U+10C82">>>>, <<"U+10CC3", <<"U+10C83">>>>, <<"U+10CC4", <<"U+10C84">>>>,
      <<"U+10CC5", <<"U+10C85">>>>, <<"U+10CC6", <<"U+10C86">>>>, <<"U+10CC7", <<"U+10C87">>>>,
      <<"U+10CC8", <<"U+10C88">>>>, <<"U+10CC9", <<"U+10C89">>>>, <<"U+10CCA", <<"U+10C8A">>>>,
      <<"U+10CCB", <<"U+10C8B">>>>, <<"U+10CCC", <<"U+10C8C">>>>, <<"U+10CCD", <<"U+10C8D">>>>,
      <<"U+10CCE", <<"U+10C8E">>>>, <<"U+10CCF", <<"U+10C8F">>>>, <<"U+10CD0", <<"U+10C90">>>>,
      <<"U+10CD1", <<"U+10C91">>>>, <<"U+10CD2", <<"U+10C92">>>>, <<"U+10CD3", <<"U+10C93">>>>,
      <<"U+10CD4", <<"U+10C94">>>>, <<"U+10CD5", <<"U+10C95">>>>, <<"U+10CD6", <<"U+10C96">>>>,
      <<"U+10CD7", <<"U+10C97">>>>, <<"U+10CD8", <<"U+10C98">>>>, <<"U+10CD9", <<"U+10C99">>>>,
      <<"U+10CDA", <<"U+10C9A">>>>, <<"U+10CDB", <<"U+10C9B">>>>, <<"U+10CDC", <<"U+10C9C">>>>,
      <<"U+10CDD", <<"U+10C9D">>>>, <<"U+10CDE", <<"U+10C9E">>>>, <<"U+10CDF", <<"U+10C9F">>>>,
      <<"U+10CE0", <<"U+10CA0">>>>, <<"U+10CE1", <<"U+10CA1">>>>, <<"U+10CE2", <<"U+10CA2">>>>,
      <<"U+10CE3", <<"U+10CA3">>>>, <<"U+10CE4", <<"U+10CA4">>>>, <<"U+10CE5", <<"U+10CA5">>>>,
      <<"U+10CE6", <<"U+10CA6">>>>, <<"U+10CE7", <<"U+10CA7">>>>, <<"U+10CE8", <<"U+10CA8">>>>,
      <<"U+10CE9", <<"U+10CA9">>>>, <<"U+10CEA", <<"U+10CAA">>>>, <<"U+10CEB", <<"U+10CAB">>>>,
      <<"U+10CEC", <<"U+10CAC">>>>, <<"U+10CED", <<"U+10CAD">>>>, <<"U+10CEE", <<"U+10CAE">>>>,
      <<"U+10CEF", <<"U+10CAF">>>>, <<"U+10CF0", <<"U+10CB0">>>>, <<"U+10CF1", <<"U+10CB1">>>>,
      <<"U+10CF2", <<"U+10CB2">>>>, <<"U+118C0", <<"U+118A0">>>>, <<"U+118C1", <<"U+118A1">>>>,
      <<"U+118C2", <<"U+118A2">>>>, <<"U+118C3", <<"U+118A3">>>>, <<"U+118C4", <<"U+118A4">>>>,
      <<"U+118C5", <<"U+118A5">>>>, <<"U+118C6", <<"U+118A6">>>>, <<"U+118C7", <<"U+118A7">>>>,
      <<"U+118C8", <<"U+118A8">>>>, <<"U+118C9", <<"U+118A9">>>>, <<"U+118CA", <<"U+118AA">>>>,
      <<"U+118CB", <<"U+118AB">>>>, <<"U+118CC", <<"U+118AC">>>>, <<"U+118CD", <<"U+118AD">>>>,
      <<"U+118CE", <<"U+118AE">>>>, <<"U+118CF", <<"U+118AF">>>>, <<"U+118D0", <<"U+118B0">>>>,
      <<"U+118D1", <<"U+118B1">>>>, <<"U+118D2", <<"U+118B2">>>>, <<"U+118D3", <<"U+118B3">>>>,
      <<"U+118D4", <<"U+118B4">>>>, <<"U+118D5", <<"U+118B5">>>>, <<"U+118D6", <<"U+118B6">>>>,
      <<"U+118D7", <<"U+118B7">>>>, <<"U+118D8", <<"U+118B8">>>>, <<"U+118D9", <<"U+118B9">>>>,
      <<"U+118DA", <<"U+118BA">>>>, <<"U+118DB", <<"U+118BB">>>>, <<"U+118DC", <<"U+118BC">>>>,
      <<"U+118DD", <<"U+118BD">>>>, <<"U+118DE", <<"U+118BE">>>>, <<"U+118DF", <<"U+118BF">>>>,
      <<"U+16E60", <<"U+16E40">>>>, <<"U+16E61", <<"U+16E41">>>>, <<"U+16E62", <<"U+16E42">>>>,
      <<"U+16E63", <<"U+16E43">>>>, <<"U+16E64", <<"U+16E44">>>>, <<"U+16E65", <<"U+16E45">>>>,
      <<"U+16E66", <<"U+16E46">>>>, <<"U+16E67", <<"U+16E47">>>>, <<"U+16E68", <<"U+16E48">>>>,
      <<"U+16E69", <<"U+16E49">>>>, <<"U+16E6A", <<"U+16E4A">>>>, <<"U+16E6B", <<"U+16E4B">>>>,
      <<"U+16E6C", <<"U+16E4C">>>>, <<"U+16E6D", <<"U+16E4D">>>>, <<"U+16E6E", <<"U+16E4E">>>>,
      <<"U+16E6F", <<"U+16E4F">>>>, <<"U+16E70", <<"U+16E50">>>>, <<"U+16E71", <<"U+16E51">>>>,
      <<"U+16E72", <<"U+16E52">>>>, <<"U+16E73", <<"U+16E53">>>>, <<"U+16E74", <<"U+16E54">>>>,
      <<"U+16E75", <<"U+16E55">>>>, <<"U+16E76", <<"U+16E56">>>>, <<"U+16E77", <<"U+16E57">>>>,
      <<"U+16E78", <<"U+16E58">>>>, <<"U+16E79", <<"U+16E59">>>>, <<"U+16E7A", <<"U+16E5A">>>>,
      <<"U+16E7B", <<"U+16E5B">>>>, <<"U+16E7C", <<"U+16E5C">>>>, <<"U+16E7D", <<"U+16E5D">>>>,
      <<"U+16E7E", <<"U+16E5E">>>>, <<"U+16E7F", <<"U+16E5F">>>>, <<"U+1E922", <<"U+1E900">>>>,
      <<"U+1E923", <<"U+1E901">>>>, <<"U+1E924", <<"U+1E902">>>>, <<"U+1E925", <<"U+1E903">>>>,
      <<"U+1E926", <<"U+1E904">>>>, <<"U+1E927", <<"U+1E905">>>>, <<"U+1E928", <<"U+1E906">>>>,
      <<"U+1E929", <<"U+1E907">>>>, <<"U+1E92A", <<"U+1E908">>>>, <<"U+1E92B", <<"U+1E909">>>>,
      <<"U+1E92C", <<"U+1E90A">>>>, <<"U+1E92D", <<"U+1E90B">>>>, <<"U+1E92E", <<"U+1E90C">>>>,
      <<"U+1E92F", <<"U+1E90D">>>>, <<"U+1E930", <<"U+1E90E">>>>, <<"U+1E931", <<"U+1E90F">>>>,
      <<"U+1E932", <<"U+1E910">>>>, <<"U+1E933", <<"U+1E911">>>>, <<"U+1E934", <<"U+1E912">>>>,
      <<"U+1E935", <<"U+1E913">>>>, <<"U+1E936", <<"U+1E914">>>>, <<"U+1E937", <<"U+1E915">>>>,
      <<"U+1E938", <<"U+1E916">>>>, <<"U+1E939", <<"U+1E917">>>>, <<"U+1E93A", <<"U+1E918">>>>,
      <<"U+1E93B", <<"U+1E919">>>>, <<"U+1E93C", <<"U+1E91A">>>>, <<"U+1E93D", <<"U+1E91B">>>>,
      <<"U+1E93E", <<"U+1E91C">>>>, <<"U+1E93F", <<"U+1E91D">>>>, <<"U+1E940", <<"U+1E91E">>>>,
      <<"U+1E941", <<"U+1E91F">>>>, <<"U+1E942", <<"U+1E920">>>>, <<"U+1E943", <<"U+1E921">>>> }

\* the characters of that table
Cased == {p[1] : p \in SpecialCasing}

\* c.upper(), for a str c of one character: a str of one or more characters
upper_char(c) ==
    IF \E i \in 1..Len(LowerCase) : LowerCase[i] = c
    THEN <<UpperCase[CHOOSE i \in 1..Len(LowerCase) : LowerCase[i] = c]>>
    ELSE IF c \in Cased
    THEN (CHOOSE p \in SpecialCasing : p[1] = c)[2]
    ELSE <<c>>

RECURSIVE upper(_)
\* str.upper()
upper(s) == IF s = <<>> THEN <<>> ELSE upper_char(Head(s)) \o upper(Tail(s))

\* x in y, for two str
str_in(x, y) ==
    \E i \in 0..(Len(y) - Len(x)) : SubSeq(y, i + 1, i + Len(x)) = x

\* y.find(x), 0-based, for x in y
find(y, x) ==
    CHOOSE i \in 0..(Len(y) - Len(x)) :
        /\ SubSeq(y, i + 1, i + Len(x)) = x
        /\ \A j \in 0..(i - 1) : SubSeq(y, j + 1, j + Len(x)) # x

RECURSIVE split(_, _)
\* s.split(sep), sep not empty
split(s, sep) ==
    IF ~str_in(sep, s)
    THEN <<s>>
    ELSE LET i == find(s, sep)
         IN  <<SubSeq(s, 1, i)>> \o split(SubSeq(s, i + Len(sep) + 1, Len(s)), sep)

RECURSIVE join(_, _)
\* sep.join(parts)
join(parts, sep) ==
    IF parts = <<>> THEN <<>>
    ELSE IF Len(parts) = 1 THEN parts[1]
    ELSE parts[1] \o sep \o join(Tail(parts), sep)

\* The printable ASCII characters in the order of their code points, from
\* U+0020 on; the characters written by their code point come after them.
CodePoints ==
    << " ", "!", "\"", "#", "$", "%", "&", "'", "(", ")", "*", "+", ",", "-", ".", "/",
       "0", "1", "2", "3", "4", "5", "6", "7", "8", "9", ":", ";", "<", "=", ">", "?",
       "@", "A", "B", "C", "D", "E", "F", "G", "H", "I", "J", "K", "L", "M", "N", "O",
       "P", "Q", "R", "S", "T", "U", "V", "W", "X", "Y", "Z", "[", "\\", "]", "^", "_",
       GRAVE, "a", "b", "c", "d", "e", "f", "g", "h", "i", "j", "k", "l", "m", "n", "o",
       "p", "q", "r", "s", "t", "u", "v", "w", "x", "y", "z", "{", "|", "}", "~",
       SHARP_S, LONG_S >>

\* the place of a character in the order of the code points
ord(c) == CHOOSE i \in 1..Len(CodePoints) : CodePoints[i] = c

\* fnmatch.translate, at a "[": the index of the "]" that closes the set whose
\* "[" is pat[i], or 0 when none does and the "[" stands for itself
set_end(pat, i) ==
    LET a == IF i + 1 <= Len(pat) /\ pat[i + 1] = "!" THEN i + 2 ELSE i + 1
        b == IF a <= Len(pat) /\ pat[a] = "]" THEN a + 1 ELSE a
        closing == {j \in b..Len(pat) : pat[j] = "]"}
    IN  IF closing = {} THEN 0 ELSE CHOOSE j \in closing : \A k \in closing : j <= k

RECURSIVE range_hyphens(_, _)
\* the hyphens of a set that fnmatch.translate reads as `from-to`: the first
\* one at or after k, then the first one three places or more after it
range_hyphens(stuff, k) ==
    LET found == {j \in k..Len(stuff) : stuff[j] = "-"}
    IN  IF found = {} THEN {}
        ELSE LET j == CHOOSE j \in found : \A h \in found : j <= h
             IN  (IF j < Len(stuff) THEN {j} ELSE {}) \cup range_hyphens(stuff, j + 3)

\* whether the set [stuff] of a pattern holds the character c
in_set(c, stuff) ==
    LET negated == stuff[1] = "!"
        body    == IF negated THEN Tail(stuff) ELSE stuff
        hyphens == range_hyphens(body, 2)
        in_range == \E j \in hyphens : ord(body[j - 1]) <= ord(c) /\ ord(c) <= ord(body[j + 1])
        alone   == {j \in 1..Len(body) :
                      j \notin hyphens /\ (j + 1) \notin hyphens /\ (j - 1) \notin hyphens}
        listed  == \E j \in alone : body[j] = c
    IN  IF negated THEN ~(in_range \/ listed) ELSE in_range \/ listed

RECURSIVE fnmatch(_, _)
\* re.compile(fnmatch.translate(pat)).fullmatch(name), as pathlib matches the
\* name of an entry with one component of a glob pattern
fnmatch(s, pat) ==
    IF pat = <<>> THEN s = <<>>
    ELSE IF pat[1] = "*"
    THEN fnmatch(s, Tail(pat)) \/ (s # <<>> /\ fnmatch(Tail(s), pat))
    ELSE IF s = <<>> THEN FALSE
    ELSE IF pat[1] = "?" THEN fnmatch(Tail(s), Tail(pat))
    ELSE IF pat[1] = "[" /\ set_end(pat, 1) # 0
    THEN /\ in_set(s[1], SubSeq(pat, 2, set_end(pat, 1) - 1))
         /\ fnmatch(Tail(s), SubSeq(pat, set_end(pat, 1) + 1, Len(pat)))
    ELSE s[1] = pat[1] /\ fnmatch(Tail(s), Tail(pat))

\* ----------------------------------------------------------- dict, list

keys(d) == [i \in 1..Len(d) |-> d[i].k]

\* k in d
has_key(d, k) == \E i \in 1..Len(d) : d[i].k = k

\* d[k], for k in d
getitem(d, k) == d[CHOOSE i \in 1..Len(d) : d[i].k = k].v

\* d[k] = v: the entry is replaced in place, or appended
setitem(d, k, v) ==
    IF has_key(d, k)
    THEN [i \in 1..Len(d) |-> IF d[i].k = k THEN [k |-> k, v |-> v] ELSE d[i]]
    ELSE Append(d, [k |-> k, v |-> v])

\* x in l, for a list l
list_in(x, l) == \E i \in 1..Len(l) : l[i] = x

RECURSIVE concat(_)
\* the lists of a list, chained
concat(ls) == IF ls = <<>> THEN <<>> ELSE Head(ls) \o concat(Tail(ls))

\* ------------------------------------------------------------- literals

SLASH      == <<"/">>
DOT_FITS   == <<".","f","i","t","s">>
HARPSN     == <<"H","A","R","P","S","N">>
HARPN      == <<"H","A","R","P","N">>
ESPRESSO   == <<"E","S","P","R","E","S","S","O">>
V_3_0_0    == <<"3",".","0",".","0">>
V_2_3_5    == <<"2",".","3",".","5">>
tar_name   == <<"r","e","s","u","l","t",".","t","a","r",".","g","z">>

\* A call's result: the value returned, or the exception that ended it.
Return(v) == [exc |-> "none", value |-> v]

Raise(e) == [exc |-> e, value |-> None]

\* ------------------------------------------------ Star: the read operations
\* Each operator takes d, the mapping self._data evaluated to in the call.

get_available_instruments(d) == Return(keys(d))

\* self._data[instrument] raises KeyError for an instrument that is no key
get_pipelines_of_instrument(d, instrument) ==
    IF has_key(d, instrument)
    THEN Return(keys(getitem(d, instrument)))
    ELSE Raise("KeyError")

\* a guard that looks at the instrument alone
instrument_not_found(d, instrument, pipeline) ==
    ~list_in(instrument, get_available_instruments(d).value)

\* the guard of get_OBS_modes: `or` does not evaluate its right side when the
\* left side holds
obs_modes_not_found(d, instrument, pipeline) ==
    IF ~list_in(instrument, get_available_instruments(d).value)
    THEN TRUE
    ELSE ~list_in(pipeline, get_pipelines_of_instrument(d, instrument).value)

get_OBS_modes(d, instrument, pipeline) ==
    IF obs_modes_not_found(d, instrument, pipeline)
    THEN Raise("Exception")
    ELSE IF ~has_key(d, instrument) THEN Raise("KeyError")
    ELSE IF ~has_key(getitem(d, instrument), pipeline) THEN Raise("KeyError")
    ELSE Return(keys(getitem(getitem(d, instrument), pipeline)))

\* a filter that asks for the key itself
reject_unless_equal(x, y) == x # None /\ x # y

reject_iter(x, y) == x # None /\ ~str_in(x, y)

\* the leaves the three nested loops reach, in the order they reach them
leaves_of_pipeline(instrument_name, pipe_name, data_2, OBS_mode) ==
    concat([k \in 1..Len(data_2) |->
        IF reject_iter(OBS_mode, data_2[k].k)
        THEN <<>>
        ELSE << <<instrument_name, pipe_name, data_2[k].k, data_2[k].v>> >>])

leaves_of_instrument(instrument_name, data_1, OBS_mode, pipe_identifier) ==
    concat([k \in 1..Len(data_1) |->
        IF reject_iter(pipe_identifier, data_1[k].k)
        THEN <<>>
        ELSE leaves_of_pipeline(instrument_name, data_1[k].k, data_1[k].v, OBS_mode)])

\* a traversal that stops after the first instrument
leaves_of_first_instrument(d, instrument, OBS_mode, pipe_identifier) ==
    IF Len(d) = 0 \/ (instrument # None /\ ~str_in(instrument, d[1].k))
    THEN <<>>
    ELSE concat([k \in 1..Len(d[1].v) |->
            IF pipe_identifier # None /\ ~str_in(pipe_identifier, d[1].v[k].k)
            THEN <<>>
            ELSE concat([j \in 1..Len(d[1].v[k].v) |->
                    IF OBS_mode # None /\ ~str_in(OBS_mode, d[1].v[k].v[j].k)
                    THEN <<>>
                    ELSE << <<d[1].k, d[1].v[k].k, d[1].v[k].v[j].k, d[1].v[k].v[j].v>> >>])])

matching_leaves(d, instrument, OBS_mode, pipe_identifier) ==
    concat([k \in 1..Len(d) |->
        IF reject_iter(instrument, d[k].k)
        THEN <<>>
        ELSE leaves_of_instrument(d[k].k, d[k].v, OBS_mode, pipe_identifier)])

\* what a leaf yields: the leaf itself, or its value for metric_name
yielded(leaf, metric_name, get_full_dict) ==
    <<leaf[1], leaf[2], leaf[3],
      IF get_full_dict THEN leaf[4] ELSE leaf[4][metric_name]>>

\* The generator at its n-th advance, on the mapping d it iterates: the tuple
\* it yields, the KeyError of a leaf without metric_name, or the StopIteration
\* of a traversal that is over or that an exception ended before.
next_tuple(d, metric_name, instrument, OBS_mode, pipe_identifier, get_full_dict, n) ==
    LET leaves == matching_leaves(d, instrument, OBS_mode, pipe_identifier)
        ok(k)  == get_full_dict \/ metric_name \in DOMAIN leaves[k][4]
    IN  IF n > Len(leaves) \/ \E k \in 1..(n - 1) : ~ok(k) THEN Raise("StopIteration")
        ELSE IF ~ok(n) THEN Raise("KeyError")
        ELSE Return(yielded(leaves[n], metric_name, get_full_dict))

\* The generator, consumed to its end: the tuples it yields, and the KeyError
\* that ends it at the first leaf without metric_name.
data_to_iterate_over(d, metric_name, instrument, OBS_mode, pipe_identifier, get_full_dict) ==
    LET leaves == matching_leaves(d, instrument, OBS_mode, pipe_identifier)
        ok(k)  == get_full_dict \/ metric_name \in DOMAIN leaves[k][4]
        bad    == {k \in 1..Len(leaves) : ~ok(k)}
        n      == IF bad = {} THEN Len(leaves)
                  ELSE (CHOOSE k \in bad : \A j \in bad : k <= j) - 1
    IN  [exc   |-> IF bad = {} THEN "none" ELSE "KeyError",
         value |-> [k \in 1..n |-> yielded(leaves[k], metric_name, get_full_dict)]]

RECURSIVE comprehension(_, _)
\* {i: data[i] for i in kw_to_get}, for kw_to_get all in data
comprehension(data, kw_to_get) ==
    IF Len(kw_to_get) = 0 THEN <<>>
    ELSE setitem(comprehension(data, SubSeq(kw_to_get, 1, Len(kw_to_get) - 1)),
                 kw_to_get[Len(kw_to_get)], data[kw_to_get[Len(kw_to_get)]])

\* line 70-71
insert_instrument(data_dict, instrument_name) ==
    IF ~has_key(data_dict, instrument_name)
    THEN setitem(data_dict, instrument_name, <<>>)
    ELSE data_dict

\* line 73-74
insert_OBS_mode(data_dict, instrument_name, OBS_name) ==
    IF ~has_key(getitem(data_dict, instrument_name), OBS_name)
    THEN setitem(data_dict, instrument_name, <<[k |-> OBS_name, v |-> <<>>]>>)
    ELSE data_dict

\* line 76: whether the pipeline's entry is still to be written
pipeline_missing(data_dict, instrument_name, OBS_name, pipe_name) ==
    ~has_key(getitem(getitem(data_dict, instrument_name), OBS_name), pipe_name)

\* line 77
insert_pipeline(data_dict, instrument_name, OBS_name, pipe_name, entry) ==
    LET by_mode == getitem(data_dict, instrument_name)
        by_pipe == getitem(by_mode, OBS_name)
    IN  setitem(data_dict, instrument_name,
                setitem(by_mode, OBS_name, setitem(by_pipe, pipe_name, entry)))

RECURSIVE header_loop(_, _, _, _)
\* the loop of get_header_info from its k-th tuple on
header_loop(items, k, data_dict, kw_to_get) ==
    IF k > Len(items) THEN Return(data_dict)
    ELSE LET item == items[k]
             d1   == insert_instrument(data_dict, item[1])
             d2   == insert_OBS_mode(d1, item[1], item[3])
         IN  IF ~pipeline_missing(d2, item[1], item[3], item[2])
             THEN header_loop(items, k + 1, d2, kw_to_get)
             ELSE IF \E j \in 1..Len(kw_to_get) : kw_to_get[j] \notin DOMAIN item[4]
             THEN Raise("KeyError")
             ELSE header_loop(items, k + 1,
                     insert_pipeline(d2, item[1], item[3], item[2],
                                     comprehension(item[4], kw_to_get)),
                     kw_to_get)

get_header_info(d, kw_to_get, instrument, OBS_mode, pipe_identifier) ==
    header_loop(data_to_iterate_over(d, "rv", instrument, OBS_mode,
                                     pipe_identifier, TRUE).value,
                1, <<>>, kw_to_get)

get_RVs(d, instrument, OBS_mode, pipe_identifier) ==
    get_header_info(d, <<"rjd", "rv", "rv_err">>, instrument, OBS_mode, pipe_identifier)

\* the pipe_KW field when the Star was constructed without one
NoHints == <<[k |-> None, v |-> None]>>

\* lines 263-267: the hint is used when the Star has hints and they hold the
\* instrument; the KeyError of a hint mapping without it is caught
hint_applies(pipe_KW, instrument) ==
    pipe_KW # NoHints /\ has_key(pipe_KW, instrument)

\* lines 269-272
default_pipeline(instrument) ==
    IF str_in(ESPRESSO, instrument) THEN V_3_0_0
    ELSE IF str_in(HARPN, instrument) THEN V_2_3_5
    ELSE None

\* the result r of a call that has logged `log`
Logged(r, log) == [exc |-> r.exc, value |-> r.value, log |-> log]

\* a resolution that looks at the hints first
get_pipe_KW_hint_first(d, pipe_KW, instrument) ==
    LET available_pipes == get_pipelines_of_instrument(d, instrument)
        warning == [ev |-> "warning: pipe_KW does not specify pipe",
                    instrument |-> instrument]
    IN  IF available_pipes.exc # "none" THEN Logged(available_pipes, <<>>)
        ELSE IF hint_applies(pipe_KW, instrument)
             THEN Logged(Return(getitem(pipe_KW, instrument)), <<>>)
        ELSE IF Len(available_pipes.value) = 1
             THEN Logged(Return(available_pipes.value[1]), <<>>)
        ELSE Logged(Return(default_pipeline(instrument)),
                    IF pipe_KW # NoHints THEN <<warning>> ELSE <<>>)

\* lines 257-272: the value returned or the exception raised, and what was
\* logged on the way. The warning of line 267 is logged when the Star has hints
\* and the KeyError of line 265 is caught, before the default is returned.
get_pipe_KW(d, pipe_KW, instrument) ==
    LET available_pipes == get_pipelines_of_instrument(d, instrument)
        warning == [ev |-> "warning: pipe_KW does not specify pipe",
                    instrument |-> instrument]
    IN  IF available_pipes.exc # "none" THEN Logged(available_pipes, <<>>)
        ELSE IF Len(available_pipes.value) = 1
             THEN Logged(Return(available_pipes.value[1]), <<>>)
        ELSE IF hint_applies(pipe_KW, instrument)
             THEN Logged(Return(getitem(pipe_KW, instrument)), <<>>)
        ELSE Logged(Return(default_pipeline(instrument)),
                    IF pipe_KW # NoHints THEN <<warning>> ELSE <<>>)

RECURSIVE empty_lists(_)
\* {i: [] for i in metric}, metric being the list of the items the loop over
\* it gives: the items of a list, the characters of a str
empty_lists(metric) ==
    IF Len(metric) = 0 THEN <<>>
    ELSE setitem(empty_lists(SubSeq(metric, 1, Len(metric) - 1)), metric[Len(metric)], <<>>)

\* list(metric) for a metric that is a str
characters(metric) == [i \in 1..Len(metric) |-> <<metric[i]>>]

RECURSIVE metrics_loop(_, _, _, _)
\* lines 232-239 from the k-th key of self._data[instrument] on. Line 232
\* unpacks the key, a str, into pipe_name and data, and so binds the name of
\* the result again; line 236 asks a str for its items.
metrics_loop(pipelines, k, pipe_KW, data) ==
    IF k > Len(pipelines) THEN Return(data)
    ELSE IF Len(pipelines[k]) # 2 THEN Raise("ValueError")
    ELSE IF pipe_KW = None THEN Raise("TypeError")
    ELSE IF ~str_in(pipe_KW, <<pipelines[k][1]>>)
    THEN metrics_loop(pipelines, k + 1, pipe_KW, <<pipelines[k][2]>>)
    ELSE Raise("AttributeError")

\* lines 216-240, with what get_pipe_KW logged at line 229; a metric that is
\* not iterable is not written here
get_metrics_of_instrument(d, pipe_KW, instrument, metric) ==
    LET resolved == get_pipe_KW(d, pipe_KW, instrument)
    IN  IF resolved.exc # "none" THEN resolved
        ELSE Logged(metrics_loop(keys(getitem(d, instrument)), 1, resolved.value,
                                 empty_lists(metric)),
                    resolved.log)

\* lines 248-253: the lines __str__ prints
printed_keys(d) ==
    concat([a \in 1..Len(d) |->
        << <<"High level key: ", d[a].k>> >> \o
        concat([b \in 1..Len(d[a].v) |->
            << <<"Mid level key:", d[a].v[b].k>> >> \o
            [c \in 1..Len(d[a].v[b].v) |-> <<"low level key:", d[a].v[b].v[c].k>>]])])

\* line 255
Star_str(self_name) == Return(self_name)

\* ------------------------------------------------- Star: download_data
\* A Path is the sequence of its components. The filesystem is
\* fs = [files, dirs]: the paths of its files and of its directories from the
\* topmost directory, which is <<>>, without "." or ".."; every ancestor of a
\* path but the topmost is in dirs, the working directory and the directories
\* above it among them. The paths the code builds are relative: the system
\* reads them from the working directory.

\* path / component, for a component without a slash: pathlib drops the
\* components "" and "."
path_join(path, component) ==
    IF component = <<>> \/ component = <<".">> THEN path ELSE Append(path, component)

parent(path) == SubSeq(path, 1, Len(path) - 1)

name_of(path) == path[Len(path)]

DOTDOT == <<".", ".">>

\* os.getcwd(): where the process runs, from the topmost directory
cwd == << <<"h","o","m","e">>, <<"u","s","e","r">>, <<"c","w","d">> >>

RECURSIVE normal(_)
\* the path of fs the system is led to by the components of the relative
\* path, when it finds a directory at each step: ".." leads to the parent,
\* and the topmost directory is its own parent
normal(path) ==
    IF path = <<>> THEN cwd
    ELSE LET front == normal(parent(path))
         IN  IF name_of(path) # DOTDOT THEN Append(front, name_of(path))
             ELSE IF front = <<>> THEN <<>>
             ELSE parent(front)

\* the entry `path` of fs is somewhere below the directory the system finds
\* at dir
is_under(path, dir) ==
    LET at == normal(dir)
    IN  /\ Len(path) > Len(at)
        /\ SubSeq(path, 1, Len(at)) = at

\* os.stat finds a directory at path
is_dir(fs, path) ==
    \A n \in 1..Len(path) :
        LET at == normal(SubSeq(path, 1, n))
        IN  at = <<>> \/ at \in fs.dirs

\* a test of the name as it was given
is_alias_as_given(instrument) == instrument = HARPSN

\* lines 119-121
is_alias(instrument) == upper(instrument) = HARPSN

renamed(instrument) == IF is_alias(instrument) THEN HARPN ELSE instrument

\* lines 129-134
destination(output_path, file, allow_subfolders) ==
    LET parts == split(file, SLASH)
    IN  IF allow_subfolders
        THEN path_join(path_join(output_path, parts[1]), parts[2])
        ELSE output_path

\* file.split("/")[-1].split(".fits")[0]
stem(file) ==
    LET parts == split(file, SLASH)
    IN  split(parts[Len(parts)], DOT_FITS)[1]

\* the last component of the pattern f"**/{stem}*"; the stem holds no slash
glob_component(file) == Append(stem(file), "*")

\* pathlib refuses a component that holds "**" without being "**"
invalid_pattern(file) ==
    str_in(<<"*", "*">>, glob_component(file)) /\ glob_component(file) # <<"*", "*">>

\* modifier.glob(f"**/{stem}*"): nothing when modifier is no directory, else
\* every entry below modifier, at any depth, whose name matches the stem, read
\* as a pattern, and anything after it, named from modifier; for the stem "*"
\* the pattern is "**/**", which gives modifier and the directories below it
similar_files(fs, modifier, file) ==
    LET globbed(p) == modifier \o SubSeq(p, Len(normal(modifier)) + 1, Len(p))
    IN  IF ~is_dir(fs, modifier) THEN {}
        ELSE IF glob_component(file) = <<"*", "*">>
        THEN {modifier} \cup {globbed(p) : p \in {q \in fs.dirs : is_under(q, modifier)}}
        ELSE {globbed(p) :
                p \in {q \in fs.files \cup fs.dirs :
                         is_under(q, modifier) /\ fnmatch(name_of(q), glob_component(file))}}

\* line 140
already_on_disk(fs, modifier, file, force_download) ==
    similar_files(fs, modifier, file) # {} /\ ~force_download

RECURSIVE collect(_, _, _, _, _, _, _)
\* lines 128-143 over the files of one leaf, from the k-th on
collect(item, k, file_list_to_download, fs, output_path, force_download, allow_subfolders) ==
    IF k > Len(item) THEN Return(file_list_to_download)
    ELSE IF Len(split(item[k], SLASH)) < 2 THEN Raise("ValueError")
    ELSE IF invalid_pattern(item[k]) THEN Raise("ValueError")
    ELSE LET modifier == destination(output_path, item[k], allow_subfolders)
             listed   == IF ~has_key(file_list_to_download, modifier)
                         THEN setitem(file_list_to_download, modifier, <<>>)
                         ELSE file_list_to_download
         IN  collect(item, k + 1,
                     IF already_on_disk(fs, modifier, item[k], force_download)
                     THEN listed
                     ELSE setitem(listed, modifier,
                                  Append(getitem(listed, modifier), item[k])),
                     fs, output_path, force_download, allow_subfolders)

RECURSIVE walk(_, _, _, _, _)
\* lines 123-143 from the tuple after those walked on: the exception that
\* ends the loop (or "none"), the keys of the tuples walked, of which count is
\* the number, and file_list_to_download
walk(d, args, walked, file_list_to_download, fs) ==
    LET item == next_tuple(d, "raw_file", args.instrument, args.OBS_mode,
                           args.pipe_identifier, FALSE, Len(walked) + 1)
        seen == IF item.exc = "none"
                THEN collect(item.value[4], 1, file_list_to_download, fs,
                             args.output_path, args.force_download, args.allow_subfolders)
                ELSE item
        here == IF item.exc = "none"
                THEN Append(walked, <<item.value[1], item.value[2], item.value[3]>>)
                ELSE walked
    IN  IF item.exc = "StopIteration"
        THEN [exc |-> "none", walked |-> walked, groups |-> file_list_to_download]
        ELSE IF seen.exc # "none"
        THEN [exc |-> seen.exc, walked |-> here, groups |-> <<>>]
        ELSE walk(d, args, here, seen.value, fs)

\* What one call leaves in its log, in order.
Event(ev, path, files, output_filename) ==
    [ev |-> ev, path |-> path, files |-> files, output_filename |-> output_filename]

RECURSIVE mkdirs(_, _, _, _)
\* Path.mkdir(exist_ok=True, parents=True) from the n-th component of path on,
\* `made` telling that a directory was created on the way. A file where a
\* directory should be ends it: found by the first os.mkdir, below the path
\* asked for, it is NotADirectoryError, else FileExistsError.
mkdirs(fs, path, n, made) ==
    IF n > Len(path) THEN [exc |-> "none", fs |-> fs]
    ELSE LET at == normal(SubSeq(path, 1, n))
         IN  IF is_dir(fs, SubSeq(path, 1, n)) THEN mkdirs(fs, path, n + 1, made)
             ELSE IF at \in fs.files
             THEN [exc |-> IF made \/ n = Len(path) THEN "FileExistsError"
                           ELSE "NotADirectoryError",
                   fs  |-> fs]
             ELSE mkdirs([fs EXCEPT !.dirs = @ \cup {at}], path, n + 1, TRUE)

\* disk_path.mkdir(exist_ok=True, parents=True)
mkdir(fs, disk_path) == mkdirs(fs, disk_path, 1, FALSE)

\* The archive the client writes holds one data file per file asked for, under
\* the name the file has in the request. The folders it puts them in are the
\* server's choice, which the code does not see: none, one folder, or a folder
\* in a folder.
ArchiveLayouts ==
    { <<>>,
      << <<"r","e","s","u","l","t">> >>,
      << <<"d","a","c","e">>, <<"r","e","s","u","l","t">> >> }

\* Spectroscopy.download_files: the archive written into output_directory,
\* which is there; a directory of its name keeps the file from being written
download_files(fs, files, output_directory, output_filename) ==
    LET archive == path_join(normal(output_directory), output_filename)
    IN  IF archive \in fs.dirs THEN [exc |-> "IsADirectoryError", fs |-> fs]
        ELSE [exc |-> "none", fs |-> [fs EXCEPT !.files = @ \cup {archive}]]

\* the path of the member of the archive for `file`, extracted into disk_path
member(disk_path, layout, file) ==
    Append(normal(disk_path) \o layout, name_of(split(file, SLASH)))

\* what keeps tarfile from writing a member: a directory at its path, or a
\* file where one of its folders should be
blocked(fs, disk_path, m) ==
    IF m \in fs.dirs THEN "IsADirectoryError"
    ELSE IF \E n \in (Len(normal(disk_path)) + 1)..(Len(m) - 1) : SubSeq(m, 1, n) \in fs.files
    THEN "NotADirectoryError"
    ELSE "none"

\* fs with the members ms of the archive written
extracted(fs, disk_path, ms) ==
    [files |-> fs.files \cup ms,
     dirs  |-> fs.dirs \cup
               UNION {{SubSeq(m, 1, n) : n \in (Len(normal(disk_path)) + 1)..(Len(m) - 1)} :
                         m \in ms}]

\* tar.extractall(path=disk_path): the members are written in the order of the
\* archive, which is the server's, up to the first one that cannot be
extractall(fs, files, disk_path, layout) ==
    LET members == {member(disk_path, layout, files[k]) : k \in 1..Len(files)}
        stuck   == {m \in members : blocked(fs, disk_path, m) # "none"}
    IN  IF stuck = {}
        THEN {[exc |-> "none", fs |-> extracted(fs, disk_path, members)]}
        ELSE {[exc |-> blocked(fs, disk_path, m), fs |-> extracted(fs, disk_path, ms)] :
                m \in stuck, ms \in SUBSET (members \ stuck)}

\* the directories disk_path.iterdir() gives
subfolders(fs, disk_path) ==
    {p \in fs.dirs : parent(p) = normal(disk_path)}

\* lines 165-169: i.glob("*.fits") gives the entries of i with such a name,
\* the directories among them as well
all_paths(fs, disk_path) ==
    {p \in fs.files \cup fs.dirs :
        /\ parent(p) \in subfolders(fs, disk_path)
        /\ fnmatch(name_of(p), <<"*">> \o DOT_FITS)}

\* shutil.move(path, store_path) raises when store_path holds the name already
move_fails(fs, disk_path, moved, path) ==
    \/ Append(normal(disk_path), name_of(path)) \in fs.files \cup fs.dirs
    \/ \E q \in moved : name_of(q) = name_of(path)

\* where shutil.move of one of `moved` into disk_path puts the entry q: the
\* entry moved, or an entry of the directory moved
relocated(disk_path, moved, q) ==
    LET at(p) == Len(q) >= Len(p) /\ SubSeq(q, 1, Len(p)) = p
    IN  IF \E p \in moved : at(p)
        THEN LET p == CHOOSE p \in moved : at(p)
             IN  normal(disk_path) \o SubSeq(q, Len(p), Len(q))
        ELSE q

move_all(fs, disk_path, moved) ==
    [files |-> {relocated(disk_path, moved, q) : q \in fs.files},
     dirs  |-> {relocated(disk_path, moved, q) : q \in fs.dirs}]

\* lines 173-174. The order of the moves is the directory order of the
\* filesystem: the moves made before one fails are any set of them that do
\* not fail, short of one that does.
moves(fs, disk_path) ==
    LET all == all_paths(fs, disk_path)
        free(m) == \A p \in m : ~move_fails(fs, disk_path, m \ {p}, p)
    IN  IF free(all)
        THEN {[exc |-> "none", fs |-> move_all(fs, disk_path, all)]}
        ELSE {[exc |-> "shutil.Error", fs |-> move_all(fs, disk_path, m)] :
                m \in {m \in SUBSET all :
                        /\ free(m)
                        /\ \E q \in all \ m : move_fails(fs, disk_path, m, q)}}

\* the directory `dir` of fs holds an entry
not_empty(fs, dir) == \E p \in fs.files \cup fs.dirs : parent(p) = dir

\* lines 176-180: path.rmdir() raises on a directory that is not empty; the
\* directories removed before that are any of the empty ones, in the
\* directory order of the filesystem. Each is reached by disk_path and its
\* name: once a directory disk_path goes through is removed, is_dir finds no
\* other and the loop removes nothing more.
rmdirs(fs, disk_path) ==
    LET subs    == subfolders(fs, disk_path)
        empty   == {p \in subs : ~not_empty(fs, p)}
        through == empty \cap {normal(SubSeq(disk_path, 1, n)) : n \in 1..Len(disk_path)}
        left(r) == [fs EXCEPT !.dirs = @ \ r]
    IN  {[exc |-> "none", fs |-> left(r \cup {p})] : p \in through, r \in SUBSET (empty \ through)}
        \cup (IF empty = subs /\ through = {}
              THEN {[exc |-> "none", fs |-> left(subs)]}
              ELSE {})
        \cup {[exc |-> "OSError", fs |-> left(r)] :
                  r \in IF empty = subs THEN {} ELSE SUBSET (empty \ through)}

\* lines 165-180 on the filesystem the extraction left
flatten(fs, disk_path) ==
    UNION {IF m.exc = "none" THEN rmdirs(m.fs, disk_path) ELSE {m} :
              m \in moves(fs, disk_path)}

\* lines 153-180 for one group, its directory made: the filesystems it can
\* leave, and the exception that ends the call there
unpack(fs, disk_path, filelist, common_root_folder, unzip, layout) ==
    LET written == download_files(fs, filelist, disk_path, tar_name)
    IN  IF written.exc # "none" \/ ~unzip THEN {written}
        ELSE UNION {IF x.exc = "none" /\ common_root_folder
                    THEN flatten(x.fs, disk_path)
                    ELSE {x} :
                        x \in extractall(written.fs, filelist, disk_path, layout)}

RECURSIVE launch(_, _, _, _, _, _, _)
\* lines 146-180 from the k-th group on: every run the filesystem allows
launch(groups, k, fs, log, common_root_folder, unzip, layout) ==
    IF k > Len(groups) THEN {[exc |-> "none", fs |-> fs, log |-> log]}
    ELSE IF Len(groups[k].v) = 0
    THEN launch(groups, k + 1, fs,
                Append(log, Event("warning: all files exist", groups[k].k, <<>>, <<>>)),
                common_root_folder, unzip, layout)
    ELSE LET made   == mkdir(fs, groups[k].k)
             asked  == Append(log, Event("mkdir", groups[k].k, <<>>, <<>>))
             called == Append(asked,
                              Event("download_files", groups[k].k, groups[k].v, tar_name))
         IN  IF made.exc # "none"
             THEN {[exc |-> made.exc, fs |-> made.fs, log |-> asked]}
             ELSE UNION {IF o.exc = "none"
                         THEN launch(groups, k + 1, o.fs, called, common_root_folder,
                                     unzip, layout)
                         ELSE {[exc |-> o.exc, fs |-> o.fs, log |-> called]} :
                             o \in unpack(made.fs, groups[k].k, groups[k].v,
                                          common_root_folder, unzip, layout)}

\* The runs of download_data on mapping d and filesystem fs, the archives the
\* server writes being laid out as `layout`: each run is the exception that
\* ends it (or "none"), the filesystem it leaves, its log, the keys of the
\* tuples it walked and the groups it built. args holds the arguments of the
\* call.
download_data(d, fs, args, layout) ==
    IF args.instrument = None
    THEN {[exc |-> "AttributeError", fs |-> fs, log |-> <<>>, walked |-> <<>>, groups |-> <<>>]}
    ELSE LET warned == IF is_alias(args.instrument)
                       THEN << Event("warning: HARPSN is HARPN", <<>>, <<>>, <<>>) >>
                       ELSE <<>>
             loop   == walk(d, [args EXCEPT !.instrument = renamed(@)], <<>>, <<>>, fs)
         IN  IF loop.exc # "none"
             THEN {[exc |-> loop.exc, fs |-> fs, log |-> warned,
                    walked |-> loop.walked, groups |-> <<>>]}
             ELSE {[exc |-> o.exc, fs |-> o.fs, log |-> o.log,
                    walked |-> loop.walked, groups |-> loop.groups] :
                      o \in launch(loop.groups, 1, fs, warned, args.common_root_folder,
                                   args.unzip, layout)}

\* ------------------------------------------------- the values the calls take

HARPSN_lower == <<"h","a","r","p","s","n">>
HARPSN_long  == <<"h","a","r","p",LONG_S,"n">>
HARP         == <<"H","A","R","P">>
CORALIE      == <<"C","O","R","A","L","I","E">>
ESPRESSO18   == <<"E","S","P","R","E","S","S","O","1","8">>
HARPS03      == <<"H","A","R","P","S","0","3">>
V_1_0        == <<"1",".","0">>
V_10         == <<"1","0">>
V_20         == <<"2","0">>
V_v1         == <<"v","1">>
V_2_2_8      == <<"2",".","2",".","8">>
V_3_0        == <<"3",".","0">>
HR           == <<"H","R">>
HR11         == <<"H","R","1","1">>
HR21         == <<"H","R","2","1">>
HR1          == <<"H","R","1">>
HR2          == <<"H","R","2">>
a_fits       == <<"a",".","f","i","t","s">>
b_fits       == <<"b",".","f","i","t","s">>
c_fits       == <<"c",".","f","i","t","s">>
e1_fits      == <<"e","1",".","f","i","t","s">>
e2_fits      == <<"e","2",".","f","i","t","s">>
h1_fits      == <<"h","1",".","f","i","t","s">>
a_1_fits     == <<"a","[","1","]",".","f","i","t","s">>
d_fits       == <<"d",".","f","i","t","s">>
x_star_fits  == <<"x","*",".","f","i","t","s">>
old          == <<"o","l","d">>
elsewhere    == <<"e","l","s","e","w","h","e","r","e">>
HD1          == <<"H","D","1">>
b_S2D_fits   == <<"b","_","S","2","D","_","A",".","f","i","t","s">>
night        == <<"2","0","1","9","-","0","1","-","0","1">>
output       == <<"o","u","t","p","u","t">>

\* a remote file of the archive: instrument/pipeline/mode/name
remote(instrument, pipeline, mode, basename) ==
    join(<<instrument, pipeline, mode, basename>>, SLASH)

\* the metrics of one observation mode
leaf(n, raw_file) ==
    [rjd |-> <<n>>, rv |-> <<n + 1>>, rv_err |-> <<n + 2>>, raw_file |-> raw_file]

\* a leaf that holds one metric more
leaf_berv(n, raw_file) ==
    [rjd |-> <<n>>, rv |-> <<n + 1>>, rv_err |-> <<n + 2>>, raw_file |-> raw_file,
     berv |-> <<n + 3>>]

entry(key, value) == [k |-> key, v |-> value]

\* What the archive holds for the target, version after version.
OneInstrument ==
    << entry(HARPN, << entry(V_1_0, << entry(HR,
            leaf(10, << remote(HARPN, V_1_0, HR, a_fits),
                        remote(HARPN, V_1_0, HR, b_fits) >>)) >>) >>) >>

TwoInstruments ==
    << entry(ESPRESSO18, <<
           entry(V_3_0_0, << entry(HR11, leaf_berv(20, << remote(ESPRESSO18, V_3_0_0, HR11, e1_fits) >>)),
                             entry(HR21, leaf_berv(30, << remote(ESPRESSO18, V_3_0_0, HR21, e2_fits) >>)) >>),
           entry(V_2_2_8, << entry(HR11, leaf_berv(40, << remote(ESPRESSO18, V_2_2_8, HR11, e1_fits) >>)) >>) >>),
       entry(HARPN, <<
           entry(V_2_3_5, << entry(HR, leaf_berv(50, << remote(HARPN, V_2_3_5, HR, a_fits) >>)) >>) >>) >>

Reprocessed ==
    << entry(HARPN, <<
           entry(V_1_0,   << entry(HR, leaf_berv(10, << remote(HARPN, V_1_0, HR, a_fits),
                                                        remote(HARPN, V_1_0, HR, b_fits) >>)) >>),
           entry(V_2_3_5, << entry(HR, leaf_berv(60, << remote(HARPN, V_2_3_5, HR, c_fits) >>)) >>) >>),
       entry(HARPS03, <<
           entry(V_1_0, << entry(HR, leaf(70, << remote(HARPS03, V_1_0, HR, h1_fits) >>)) >>) >>) >>

\* names the code does not expect: file names that read as glob patterns, a
\* path with a "." component or without a slash, pipelines of two characters
Irregular ==
    << entry(HARPN, <<
           entry(V_1_0, << entry(HR, leaf_berv(80, << remote(HARPN, V_1_0, HR, a_1_fits),
                                                      remote(HARPN, <<".">>, HR, d_fits),
                                                      remote(DOTDOT, elsewhere, HR, a_fits) >>)) >>) >>),
       entry(HARPS03, <<
           entry(V_v1, << entry(HR, leaf(90, << remote(HARPS03, V_v1, HR, h1_fits) >>)) >>) >>),
       entry(CORALIE, <<
           entry(V_10, << entry(HR, leaf(100, << remote(CORALIE, V_10, HR, c_fits) >>)) >>),
           entry(V_20, << entry(HR, leaf(110, << remote(CORALIE, V_20, HR, c_fits) >>)) >>) >>),
       entry(ESPRESSO18, <<
           entry(V_3_0_0, << entry(HR11, leaf_berv(120, << e1_fits >>)),
                             entry(HR21, leaf_berv(130, << remote(ESPRESSO18, V_3_0_0, HR21, x_star_fits) >>)) >>) >>) >>

ArchiveVersions == << OneInstrument, TwoInstruments, Reprocessed, Irregular >>

\* the archive changes at most this many times
MaxUpdates == 3

\* download_data is called at most this many times
MaxDownloads == 1

\* Spectroscopy.get_timeseries(target=self.name, sorted_by_instrument=True) on
\* the archive as it is after `version` changes
get_timeseries(version) == ArchiveVersions[(version % Len(ArchiveVersions)) + 1]

\* the constructions of a Star: name, pipe_KW and api_user
Constructions ==
    { [name |-> HD1, pipe_KW |-> NoHints, api_user |-> None],
      [name |-> HD1,
       pipe_KW |-> << entry(ESPRESSO18, V_2_2_8), entry(HARPS03, <<"3",".","5">>),
                      entry(CORALIE, <<"1">>) >>,
       api_user |-> <<"a","m","i","g","u","e","l">>] }

\* the tree that holds, in the working directory, the files and the
\* directories named
on_disk(files, dirs) ==
    [files |-> {cwd \o p : p \in files},
     dirs  |-> {SubSeq(cwd, 1, n) : n \in 1..Len(cwd)} \cup {cwd \o p : p \in dirs}]

\* the destination trees a call can find
EmptyDisk == on_disk({}, {})

OneFileKept ==
    on_disk({ <<output, HARPN, V_1_0, a_fits>> },
            { <<output>>, <<output, HARPN>>, <<output, HARPN, V_1_0>> })

OneProductKept ==
    on_disk({ <<output, night, b_S2D_fits>> },
            { <<output>>, <<output, night>> })

\* a file whose name reads as a pattern, and a directory named as a data file
Leftovers ==
    on_disk({ <<output, HARPN, V_1_0, a_1_fits>>,
              <<output, HARPN, V_1_0, old, d_fits, <<"z",".","t","x","t">> >> },
            { <<output>>, <<output, HARPN>>, <<output, HARPN, V_1_0>>,
              <<output, HARPN, V_1_0, old>>, <<output, HARPN, V_1_0, old, d_fits>> })

\* a file where the directory of an instrument should be
FileInTheWay == on_disk({ <<output, HARPN>> }, { <<output>> })

Disks == {EmptyDisk, OneFileKept, OneProductKept, Leftovers, FileInTheWay}

InstrumentNames   == {HARPN, ESPRESSO18, HARPS03, ESPRESSO, CORALIE}
PipelineNames     == {V_1_0, V_3_0_0, V_3_0}
InstrumentFilters == {None, HARPN, ESPRESSO, HARP, CORALIE}
ModeFilters       == {None, HR1}
PipelineFilters   == {None, V_3_0}
MetricNames       == {"rv", "berv"}
Keywords          == { <<"rv">>, <<"berv", "rv">> }
Requested         == {None, HARPSN, HARPSN_lower, HARPSN_long, HARPN, ESPRESSO}
Metrics           == { characters(<<"r","v">>), << <<"r","v">>, <<"r","j","d">> >> }

\* OBS_mode and pipe_identifier as download_data is called with them
FilterPairs       == { [OBS_mode |-> None, pipe_identifier |-> None],
                       [OBS_mode |-> HR2,  pipe_identifier |-> V_3_0] }

\* common_root_folder and unzip as download_data is called with them: the
\* archive kept as written, unpacked as it is, unpacked and flattened
Unpackings        == { [common_root_folder |-> TRUE,  unzip |-> FALSE],
                       [common_root_folder |-> FALSE, unzip |-> TRUE],
                       [common_root_folder |-> TRUE,  unzip |-> TRUE] }

\* the arguments of the calls where every method of the Star is called
SomeInstruments   == {HARPN, CORALIE}
SomeFilters       == {None, ESPRESSO}

\* ------------------------------------------------------------ the state

VARIABLES
    name,             \* Star.name
    pipe_KW,          \* Star.pipe_KW
    api_user,         \* Star.api_user
    cache,            \* what cached_property keeps of _data in the instance
    archive_version,  \* how many times the archive has changed
    dace_key,         \* the key of Dace's configuration
    fetch_log,        \* the mappings get_timeseries returned, call after call
    fs,               \* the filesystem under the output path
    downloads,        \* how many times download_data was called
    gen,              \* the generator data_to_iterate_over returned last
    last              \* the call made last, until its caller is done with it

vars == <<name, pipe_KW, api_user, cache, archive_version, dace_key, fetch_log, fs, downloads, gen, last>>

NoCall == [op |-> "none", args |-> <<>>, exc |-> "none", value |-> <<>>,
           log |-> <<>>, data |-> <<>>]

\* no generator yet
NoGenerator == [state |-> "none", args |-> <<>>, out |-> <<>>, exc |-> "none"]

Init ==
    /\ \E c \in Constructions :
          name = c.name /\ pipe_KW = c.pipe_KW /\ api_user = c.api_user
    /\ cache = [present |-> FALSE, value |-> <<>>]
    /\ archive_version \in 0..MaxUpdates
    /\ dace_key = "default"
    /\ fetch_log = <<>>
    /\ fs \in Disks
    /\ downloads = 0
    /\ gen = NoGenerator
    /\ last = NoCall

\* a property that is computed at every access
never_cached == FALSE

\* cached_property: the instance holds the value once it was computed
cache_hit == cache.present

\* lines 31-37, run when the instance holds no value yet
fetched == get_timeseries(archive_version)

\* self._data as a call reads it
Star_data == IF cache_hit THEN cache.value ELSE fetched

\* the effects of reading self._data
ReadData ==
    /\ cache' = [present |-> TRUE, value |-> Star_data]
    /\ fetch_log' = IF cache_hit THEN fetch_log ELSE Append(fetch_log, fetched)
    /\ dace_key' = IF ~cache_hit /\ api_user # None THEN "amiguel" ELSE dace_key

\* The call the caller has made: its result, the mapping it read and what it
\* logged or printed, which is nothing unless the action says so.
Called(op, args, r) ==
    [op |-> op, args |-> args, exc |-> r.exc, value |-> r.value,
     log |-> <<>>, data |-> Star_data]

\* The caller makes one call at a time: it is between two calls, whether or not
\* it holds a generator that is not exhausted.
Idle == last.op = "none"

GetAvailableInstruments ==
    /\ Idle
    /\ ReadData
    /\ last' = Called("get_available_instruments", <<>>,
                      get_available_instruments(Star_data))
    /\ UNCHANGED <<name, pipe_KW, api_user, archive_version, fs, downloads, gen>>

GetPipelinesOfInstrument(instrument) ==
    /\ Idle
    /\ ReadData
    /\ last' = Called("get_pipelines_of_instrument", [instrument |-> instrument],
                      get_pipelines_of_instrument(Star_data, instrument))
    /\ UNCHANGED <<name, pipe_KW, api_user, archive_version, fs, downloads, gen>>

GetOBSModes(instrument, pipeline) ==
    /\ Idle
    /\ ReadData
    /\ last' = Called("get_OBS_modes", [instrument |-> instrument, pipeline |-> pipeline],
                      get_OBS_modes(Star_data, instrument, pipeline))
    /\ UNCHANGED <<name, pipe_KW, api_user, archive_version, fs, downloads, gen>>

\* The call of data_to_iterate_over runs no line of its body: it returns a
\* generator, which the caller holds in place of the one it held.
DataToIterateOver(metric_name, instrument, OBS_mode, pipe_identifier, get_full_dict) ==
    /\ Idle
    /\ gen' = [state |-> "created",
               args  |-> [metric_name |-> metric_name, instrument |-> instrument,
                          OBS_mode |-> OBS_mode, pipe_identifier |-> pipe_identifier,
                          get_full_dict |-> get_full_dict],
               out   |-> <<>>,
               exc   |-> "none"]
    /\ UNCHANGED <<name, pipe_KW, api_user, cache, archive_version, dace_key, fetch_log, fs, downloads, last>>

\* The caller advances its generator: lines 200-214 up to the next yield. The
\* first advance reads self._data (line 200); the later ones go on in the
\* mapping it gave, which is the one the instance holds.
NextTuple ==
    /\ Idle
    /\ gen.state \in {"created", "suspended"}
    /\ IF gen.state = "created"
       THEN ReadData
       ELSE UNCHANGED <<cache, fetch_log, dace_key>>
    /\ LET item == next_tuple(Star_data, gen.args.metric_name, gen.args.instrument,
                              gen.args.OBS_mode, gen.args.pipe_identifier,
                              gen.args.get_full_dict, Len(gen.out) + 1)
       IN  gen' = IF item.exc = "none"
                  THEN [gen EXCEPT !.state = "suspended", !.out = Append(@, item.value)]
                  ELSE [gen EXCEPT !.state = "finished", !.exc = item.exc]
    /\ UNCHANGED <<name, pipe_KW, api_user, archive_version, fs, downloads, last>>

GetHeaderInfo(kw_to_get, instrument, OBS_mode, pipe_identifier) ==
    /\ Idle
    /\ ReadData
    /\ last' = Called("get_header_info",
                      [kw_to_get |-> kw_to_get, instrument |-> instrument,
                       OBS_mode |-> OBS_mode, pipe_identifier |-> pipe_identifier],
                      get_header_info(Star_data, kw_to_get, instrument, OBS_mode,
                                      pipe_identifier))
    /\ UNCHANGED <<name, pipe_KW, api_user, archive_version, fs, downloads, gen>>

GetRVs(instrument, OBS_mode, pipe_identifier) ==
    /\ Idle
    /\ ReadData
    /\ last' = Called("get_RVs",
                      [instrument |-> instrument, OBS_mode |-> OBS_mode,
                       pipe_identifier |-> pipe_identifier],
                      get_RVs(Star_data, instrument, OBS_mode, pipe_identifier))
    /\ UNCHANGED <<name, pipe_KW, api_user, archive_version, fs, downloads, gen>>

GetPipeKW(instrument) ==
    /\ Idle
    /\ ReadData
    /\ LET r == get_pipe_KW(Star_data, pipe_KW, instrument)
       IN  last' = [Called("get_pipe_KW", [instrument |-> instrument], r) EXCEPT
                       !.log = r.log]
    /\ UNCHANGED <<name, pipe_KW, api_user, archive_version, fs, downloads, gen>>

GetMetricsOfInstrument(instrument, metric) ==
    /\ Idle
    /\ ReadData
    /\ LET r == get_metrics_of_instrument(Star_data, pipe_KW, instrument, metric)
       IN  last' = [Called("get_metrics_of_instrument",
                           [instrument |-> instrument, metric |-> metric], r) EXCEPT
                       !.log = r.log]
    /\ UNCHANGED <<name, pipe_KW, api_user, archive_version, fs, downloads, gen>>

\* str(star)
Str ==
    /\ Idle
    /\ ReadData
    /\ last' = [Called("__str__", <<>>, Star_str(name)) EXCEPT
                   !.log = printed_keys(Star_data)]
    /\ UNCHANGED <<name, pipe_KW, api_user, archive_version, fs, downloads, gen>>

\* download_data reads self._data when the traversal starts, which a call that
\* ends at line 119 never does. The layout of the archives is the server's,
\* and shows only where they are unpacked.
DownloadData(force_download, instrument, OBS_mode, pipe_identifier, common_root_folder, unzip, allow_subfolders) ==
    /\ Idle
    /\ downloads < MaxDownloads
    /\ downloads' = downloads + 1
    /\ LET args == [output_path |-> <<output>>, force_download |-> force_download,
                    instrument |-> instrument, OBS_mode |-> OBS_mode,
                    pipe_identifier |-> pipe_identifier,
                    common_root_folder |-> common_root_folder,
                    unzip |-> unzip, allow_subfolders |-> allow_subfolders]
       IN  \E layout \in IF unzip THEN ArchiveLayouts ELSE {<<>>} :
           \E run \in download_data(Star_data, fs, args, layout) :
              /\ fs' = run.fs
              /\ last' = [op    |-> "download_data",
                          args  |-> [x \in DOMAIN args \cup {"fs"} |->
                                       IF x = "fs" THEN fs ELSE args[x]],
                          exc   |-> run.exc,
                          value |-> [walked |-> run.walked, groups |-> run.groups],
                          log   |-> run.log,
                          data  |-> IF instrument = None THEN <<>> ELSE Star_data]
    /\ IF instrument = None
       THEN UNCHANGED <<cache, fetch_log, dace_key>>
       ELSE ReadData
    /\ UNCHANGED <<name, pipe_KW, api_user, archive_version, gen>>

\* the archive changes upstream
ArchiveChanges ==
    /\ archive_version < MaxUpdates
    /\ archive_version' = archive_version + 1
    /\ UNCHANGED <<name, pipe_KW, api_user, cache, dace_key, fetch_log, fs, downloads, gen, last>>

\* the caller is done with the result of its call
Done ==
    /\ ~Idle
    /\ last' = NoCall
    /\ UNCHANGED <<name, pipe_KW, api_user, cache, archive_version, dace_key, fetch_log, fs, downloads, gen>>

Next ==
    \/ GetAvailableInstruments
    \/ \E instrument \in SomeInstruments : GetPipelinesOfInstrument(instrument)
    \/ \E instrument \in SomeInstruments : GetOBSModes(instrument, V_1_0)
    \/ \E instrument \in SomeFilters, get_full_dict \in BOOLEAN :
          DataToIterateOver("berv", instrument, None, None, get_full_dict)
    \/ NextTuple
    \/ \E instrument \in SomeFilters : GetHeaderInfo(<<"rv">>, instrument, None, None)
    \/ \E instrument \in SomeFilters : GetRVs(instrument, None, None)
    \/ \E instrument \in SomeInstruments : GetPipeKW(instrument)
    \/ \E instrument \in SomeInstruments, metric \in Metrics :
          GetMetricsOfInstrument(instrument, metric)
    \/ Str
    \/ \E instrument \in {None, HARPN} : DownloadData(FALSE, instrument, None, None, TRUE, TRUE, TRUE)
    \/ ArchiveChanges
    \/ Done

\* Every method of one Star that reads or writes the state above, the archive
\* changing under it. plot_Rvs, spectral_type and aliases read none of it but
\* the name and write none of it.
Spec == Init /\ [][Next]_vars

NextQueries ==
    \/ GetAvailableInstruments
    \/ \E instrument \in InstrumentNames : GetPipelinesOfInstrument(instrument)
    \/ \E instrument \in InstrumentNames, pipeline \in PipelineNames :
          GetOBSModes(instrument, pipeline)
    \/ \E kw_to_get \in Keywords, instrument \in InstrumentFilters,
          OBS_mode \in ModeFilters, pipe_identifier \in PipelineFilters :
          GetHeaderInfo(kw_to_get, instrument, OBS_mode, pipe_identifier)
    \/ \E instrument \in InstrumentFilters, OBS_mode \in ModeFilters,
          pipe_identifier \in PipelineFilters :
          GetRVs(instrument, OBS_mode, pipe_identifier)
    \/ \E instrument \in InstrumentNames : GetPipeKW(instrument)
    \/ \E instrument \in InstrumentNames, metric \in Metrics :
          GetMetricsOfInstrument(instrument, metric)
    \/ Str
    \/ ArchiveChanges
    \/ Done

\* The methods that return what they read, over all their arguments.
SpecQueries == Init /\ [][NextQueries]_vars

NextTraversal ==
    \/ \E metric_name \in MetricNames, instrument \in InstrumentFilters,
          OBS_mode \in ModeFilters, pipe_identifier \in PipelineFilters,
          get_full_dict \in BOOLEAN :
          DataToIterateOver(metric_name, instrument, OBS_mode, pipe_identifier, get_full_dict)
    \/ NextTuple
    \/ GetAvailableInstruments
    \/ ArchiveChanges
    \/ Done

\* The generator of data_to_iterate_over over all its arguments, its caller
\* making another call and the archive changing between two tuples.
SpecTraversal == Init /\ [][NextTraversal]_vars

\* The starts of the Stars that only download: no hint of pipelines, no user.
InitDownload == Init /\ pipe_KW = NoHints /\ api_user = None

NextDownload ==
    \/ \E force_download \in BOOLEAN, instrument \in Requested, filters \in FilterPairs,
          unpacking \in Unpackings, allow_subfolders \in BOOLEAN :
          DownloadData(force_download, instrument, filters.OBS_mode, filters.pipe_identifier,
                       unpacking.common_root_folder, unpacking.unzip, allow_subfolders)
    \/ Done

\* download_data alone, over its arguments, on a Star built without hints.
SpecDownload == InitDownload /\ [][NextDownload]_vars

\* --------------------------------------------------------------- properties
\* What the properties below are stated with: the leaves of a mapping, named
\* by their position, and read off the mapping itself rather than off the
\* traversal.

\* the positions <<a, b, c>> of the leaves of d: instrument a, its pipeline b,
\* that pipeline's observation mode c
LeafIndex(d) ==
    UNION {UNION {{<<a, b, c>> : c \in 1..Len(d[a].v[b].v)} :
                     b \in 1..Len(d[a].v)} :
              a \in 1..Len(d)}

InstrumentKey(d, t) == d[t[1]].k
PipelineKey(d, t)   == d[t[1]].v[t[2]].k
ModeKey(d, t)       == d[t[1]].v[t[2]].v[t[3]].k
LeafAt(d, t)        == d[t[1]].v[t[2]].v[t[3]].v
KeysOf(d, t)        == <<InstrumentKey(d, t), PipelineKey(d, t), ModeKey(d, t)>>

\* depth-first key order
Before(t, u) ==
    \/ t[1] < u[1]
    \/ t[1] = u[1] /\ t[2] < u[2]
    \/ t[1] = u[1] /\ t[2] = u[2] /\ t[3] < u[3]

\* the leaves of S, first to last
Ordered(S) ==
    [k \in 1..Cardinality(S) |->
        CHOOSE t \in S : Cardinality({u \in S : Before(u, t)}) = k - 1]

\* a filter accepts a key when it is absent or a substring of the key
Accepts(filter, key) == filter = None \/ str_in(filter, key)

Matched(d, instrument, OBS_mode, pipe_identifier) ==
    {t \in LeafIndex(d) :
        /\ Accepts(instrument, InstrumentKey(d, t))
        /\ Accepts(pipe_identifier, PipelineKey(d, t))
        /\ Accepts(OBS_mode, ModeKey(d, t))}

\* the generator was advanced: it has read the mapping of the Star
Advanced == gen.state \in {"suspended", "finished"}

\* the generator was advanced to its end
Traversed == gen.state = "finished"

\* the leaves a traversal is to yield all hold what it asks of them
Answerable ==
    \A t \in Matched(cache.value, gen.args.instrument, gen.args.OBS_mode,
                     gen.args.pipe_identifier) :
        gen.args.get_full_dict \/ gen.args.metric_name \in DOMAIN LeafAt(cache.value, t)

\* C3: data_to_iterate_over with every filter absent and get_full_dict False
\* yields one tuple per leaf of the mapping, each leaf exactly once, in
\* depth-first key order (instrument, then pipeline, then observation mode),
\* and the value of each tuple is that leaf's value for metric_name: the
\* tuples yielded so far are the first leaves in that order, and they are all
\* the leaves when the traversal is over.
C3_UnfilteredTraversalYieldsEveryLeaf ==
    ( /\ Advanced
      /\ gen.args.instrument = None
      /\ gen.args.OBS_mode = None
      /\ gen.args.pipe_identifier = None
      /\ ~gen.args.get_full_dict
      /\ Answerable )
    => LET d      == cache.value
           leaves == Ordered(LeafIndex(d))
       IN  /\ Len(gen.out) <= Len(leaves)
           /\ \A k \in 1..Len(gen.out) :
                 gen.out[k] = <<InstrumentKey(d, leaves[k]), PipelineKey(d, leaves[k]),
                                ModeKey(d, leaves[k]),
                                LeafAt(d, leaves[k])[gen.args.metric_name]>>
           /\ Traversed => (gen.exc = "StopIteration" /\ Len(gen.out) = Len(leaves))

\* an unfiltered traversal of four leaves under two instruments and three
\* pipelines, advanced to its end while the archive changed
C3_Witness ==
    /\ Traversed
    /\ gen.args.instrument = None
    /\ gen.args.OBS_mode = None
    /\ gen.args.pipe_identifier = None
    /\ ~gen.args.get_full_dict
    /\ gen.args.metric_name = "berv"
    /\ cache.value = TwoInstruments
    /\ get_timeseries(archive_version) # TwoInstruments
    /\ Len(gen.out) = 4
    /\ gen.out[4] = <<HARPN, V_2_3_5, HR, <<53>>>>

\* C4: each filter of data_to_iterate_over is a substring test on the key of
\* its level, and an absent filter accepts every key: the traversal yields
\* exactly the leaves whose instrument key contains the instrument filter,
\* whose pipeline key contains the pipeline filter and whose mode key contains
\* the mode filter. An instrument filter contained in no instrument key yields
\* nothing; one contained in exactly one key yields that instrument's leaves.
C4_FiltersAreSubstringTests ==
    (Advanced /\ Answerable)
    => LET d      == cache.value
           S      == Matched(d, gen.args.instrument, gen.args.OBS_mode,
                             gen.args.pipe_identifier)
           leaves == Ordered(S)
           holders == {a \in 1..Len(d) : Accepts(gen.args.instrument, d[a].k)}
           alone  == gen.args.OBS_mode = None /\ gen.args.pipe_identifier = None
       IN  /\ Len(gen.out) <= Cardinality(S)
           /\ \A k \in 1..Len(gen.out) :
                 /\ <<gen.out[k][1], gen.out[k][2], gen.out[k][3]>> = KeysOf(d, leaves[k])
                 /\ gen.out[k][4] = IF gen.args.get_full_dict
                                    THEN LeafAt(d, leaves[k])
                                    ELSE LeafAt(d, leaves[k])[gen.args.metric_name]
           /\ holders = {} => gen.out = <<>>
           /\ Traversed
                 => /\ gen.exc = "StopIteration"
                    /\ Len(gen.out) = Cardinality(S)
                    /\ (alone /\ Cardinality(holders) = 1)
                          => Len(gen.out) =
                                Cardinality({t \in LeafIndex(d) : t[1] \in holders})

\* the filter 'ESPRESSO' keeps the three leaves of ESPRESSO18 out of four
C4_Witness ==
    /\ Traversed
    /\ gen.args.instrument = ESPRESSO
    /\ gen.args.OBS_mode = None
    /\ gen.args.pipe_identifier = None
    /\ cache.value = TwoInstruments
    /\ Cardinality(LeafIndex(cache.value)) = 4
    /\ Len(gen.out) = 3
    /\ \A k \in 1..3 : gen.out[k][1] = ESPRESSO18

\* the other cases of C4: a filter that no instrument key contains, and a
\* traversal that a leaf without the metric ends
C4_NothingYielded ==
    /\ Traversed
    /\ gen.args.instrument = CORALIE
    /\ cache.value = TwoInstruments
    /\ gen.out = <<>>
    /\ gen.exc = "StopIteration"

C4_EndedByKeyError ==
    /\ Traversed
    /\ gen.exc = "KeyError"
    /\ Len(gen.out) = 2

\* the calls that read the mapping: all but a download_data that ends before
\* its traversal starts
ReadTheMapping ==
    /\ last.op # "none"
    /\ ~(last.op = "download_data" /\ last.args.instrument = None)

\* C5: over any sequence of operations on one Star the archive metadata is
\* fetched at most once, and every operation after that first fetch observes
\* the mapping it returned, whatever the archive holds by then. A generator of
\* data_to_iterate_over reads the mapping when it is first advanced.
C5_FetchedAtMostOnce ==
    /\ Len(fetch_log) <= 1
    /\ cache.present => (Len(fetch_log) = 1 /\ cache.value = fetch_log[1])
    /\ ReadTheMapping => (Len(fetch_log) = 1 /\ last.data = fetch_log[1])
    /\ last.op = "get_available_instruments"
          => last.value = [k \in 1..Len(fetch_log[1]) |-> fetch_log[1][k].k]
    /\ Advanced
          => /\ Len(fetch_log) = 1
             /\ \A k \in 1..Len(gen.out) :
                   \E t \in LeafIndex(fetch_log[1]) :
                      <<gen.out[k][1], gen.out[k][2], gen.out[k][3]>>
                         = KeysOf(fetch_log[1], t)

\* a call answered from the first fetch after the archive has changed
C5_Witness ==
    /\ last.op = "get_available_instruments"
    /\ Len(fetch_log) = 1
    /\ last.data = fetch_log[1]
    /\ fetch_log[1] # get_timeseries(archive_version)
    /\ last.value # [k \in 1..Len(get_timeseries(archive_version)) |->
                        get_timeseries(archive_version)[k].k]

\* the other cases of C5: a generator that was created and has fetched
\* nothing, and one that yields from the first fetch after the archive changed
C5_GeneratorNotStarted ==
    /\ gen.state = "created"
    /\ ~cache.present
    /\ fetch_log = <<>>
    /\ dace_key = "default"

C5_GeneratorOnFirstFetch ==
    /\ gen.state = "suspended"
    /\ Len(gen.out) = 1
    /\ Len(fetch_log) = 1
    /\ fetch_log[1] # get_timeseries(archive_version)
    /\ \E t \in LeafIndex(fetch_log[1]) : gen.out[1][1] = InstrumentKey(fetch_log[1], t)

\* the methods C5 does not name read the same mapping
C5_MetricsAndStr ==
    /\ last.op \in {"get_metrics_of_instrument", "__str__"}
    /\ Len(fetch_log) = 1
    /\ fetch_log[1] # get_timeseries(archive_version)

HeaderInfoReturned == last.op = "get_header_info" /\ last.exc = "none"

\* {kw: leaf[kw] for kw in kw_to_get}
Selected(leaf_data, kw_to_get) ==
    [k \in 1..Len(kw_to_get) |-> [k |-> kw_to_get[k], v |-> leaf_data[kw_to_get[k]]]]

\* result[i][m][p] is there and holds what was selected from the leaf
Recorded(result, i, m, p, selected) ==
    /\ \E a \in 1..Len(result) : result[a].k = i
    /\ LET by_mode == (CHOOSE e \in {result[a] : a \in 1..Len(result)} : e.k = i).v
       IN  /\ \E b \in 1..Len(by_mode) : by_mode[b].k = m
           /\ LET by_pipe == (CHOOSE e \in {by_mode[b] : b \in 1..Len(by_mode)} : e.k = m).v
              IN  \E c \in 1..Len(by_pipe) : by_pipe[c].k = p /\ by_pipe[c].v = selected

\* C6: for every leaf (instrument i, pipeline p, mode m) yielded for the given
\* filters, get_header_info's result has result[i][m][p] mapping each requested
\* keyword to the leaf's value for it; insertion is create-if-absent at each
\* level, so what was recorded for an earlier mode of an instrument is still
\* there after a later mode of the same instrument is processed.
C6_HeaderInfoKeepsEveryLeaf ==
    HeaderInfoReturned
    => \A t \in Matched(last.data, last.args.instrument, last.args.OBS_mode,
                        last.args.pipe_identifier) :
          Recorded(last.value, InstrumentKey(last.data, t), ModeKey(last.data, t),
                   PipelineKey(last.data, t),
                   Selected(LeafAt(last.data, t), last.args.kw_to_get))

\* What the code does keep: of each instrument, the last observation mode
\* processed that the result did not hold yet.
C6_LastLeafIsRecorded ==
    (HeaderInfoReturned
       /\ Matched(last.data, last.args.instrument, last.args.OBS_mode,
                  last.args.pipe_identifier) # {})
    => LET S == Matched(last.data, last.args.instrument, last.args.OBS_mode,
                        last.args.pipe_identifier)
           t == Ordered(S)[Cardinality(S)]
       IN  Recorded(last.value, InstrumentKey(last.data, t), ModeKey(last.data, t),
                    PipelineKey(last.data, t),
                    Selected(LeafAt(last.data, t), last.args.kw_to_get))

PipelineResolved ==
    /\ last.op = "get_pipe_KW"
    /\ \E a \in 1..Len(last.data) : last.data[a].k = last.args.instrument

\* the pipelines the mapping holds for the instrument of the call
PipelinesHeld ==
    LET at == CHOOSE a \in 1..Len(last.data) : last.data[a].k = last.args.instrument
    IN  [b \in 1..Len(last.data[at].v) |-> last.data[at].v[b].k]

Hinted ==
    /\ pipe_KW # NoHints
    /\ \E h \in 1..Len(pipe_KW) : pipe_KW[h].k = last.args.instrument

\* C7: get_pipe_KW(instrument) returns the instrument's only pipeline when it
\* has exactly one; otherwise the construction-time hint for the instrument
\* when there is one; otherwise '3.0.0' when the instrument name contains
\* 'ESPRESSO' and '2.3.5' when it contains 'HARPN'.
C7_PipelinePriority ==
    PipelineResolved
    => /\ last.exc = "none"
       /\ Len(PipelinesHeld) = 1 => last.value = PipelinesHeld[1]
       /\ (Len(PipelinesHeld) # 1 /\ Hinted)
             => \E h \in 1..Len(pipe_KW) :
                   pipe_KW[h].k = last.args.instrument /\ last.value = pipe_KW[h].v
       /\ (Len(PipelinesHeld) # 1 /\ ~Hinted /\ str_in(ESPRESSO, last.args.instrument))
             => last.value = V_3_0_0
       /\ (Len(PipelinesHeld) # 1 /\ ~Hinted /\ ~str_in(ESPRESSO, last.args.instrument)
             /\ str_in(HARPN, last.args.instrument))
             => last.value = V_2_3_5

\* the only pipeline of HARPS03 is returned although the hints name another
C7_Witness ==
    /\ PipelineResolved
    /\ last.args.instrument = HARPS03
    /\ Hinted
    /\ PipelinesHeld = <<V_1_0>>
    /\ last.value = V_1_0

\* the other cases of C7: a hint used, and both defaults
C7_HintUsed ==
    /\ PipelineResolved /\ Len(PipelinesHeld) = 2 /\ Hinted /\ last.value = V_2_2_8

C7_DefaultESPRESSO ==
    /\ PipelineResolved /\ Len(PipelinesHeld) = 2 /\ ~Hinted /\ last.value = V_3_0_0

\* the one warning of a call whose hints lack the instrument
MissingHintWarning(instrument) ==
    [ev |-> "warning: pipe_KW does not specify pipe", instrument |-> instrument]

\* hints that lack the instrument: the call warns of it once and returns the
\* default
C7_DefaultHARPN ==
    /\ PipelineResolved /\ Len(PipelinesHeld) = 2 /\ ~Hinted /\ pipe_KW # NoHints
    /\ last.value = V_2_3_5
    /\ last.log = << MissingHintWarning(HARPN) >>

\* get_pipe_KW warns exactly when it falls through hints that lack the
\* instrument, and get_metrics_of_instrument with it
C7_WarnsOfMissingHint ==
    (last.op \in {"get_pipe_KW", "get_metrics_of_instrument"}
        /\ \E a \in 1..Len(last.data) : last.data[a].k = last.args.instrument)
    => last.log = IF Len(PipelinesHeld) # 1 /\ ~Hinted /\ pipe_KW # NoHints
                  THEN << MissingHintWarning(last.args.instrument) >>
                  ELSE <<>>

\* get_metrics_of_instrument has warned before the ValueError of line 232
C7_MetricsWarned ==
    /\ last.op = "get_metrics_of_instrument"
    /\ last.exc = "ValueError"
    /\ last.log = << MissingHintWarning(last.args.instrument) >>

\* C8: get_OBS_modes(instrument, pipeline) raises the same not-found error
\* whether the instrument is unknown or the instrument is known and the
\* pipeline is not one of its pipelines; no lookup error of the mapping
\* escapes it. With both known it returns the modes of that pipeline.
C8_SameNotFoundError ==
    last.op = "get_OBS_modes"
    => LET d       == last.data
           known_i == {a \in 1..Len(d) : d[a].k = last.args.instrument}
           known_p == {<<a, b>> \in (1..Len(d)) \X (1..Cardinality(LeafIndex(d))) :
                          /\ a \in known_i
                          /\ b <= Len(d[a].v)
                          /\ d[a].v[b].k = last.args.pipeline}
       IN  /\ known_i = {} => last.exc = "Exception"
           /\ (known_i # {} /\ known_p = {}) => last.exc = "Exception"
           /\ known_p # {}
                 => /\ last.exc = "none"
                    /\ \A ab \in known_p :
                          last.value = [c \in 1..Len(d[ab[1]].v[ab[2]].v) |->
                                           d[ab[1]].v[ab[2]].v[c].k]

\* a known instrument asked for a pipeline it does not have, though the
\* name asked for is part of the name of one it has
C8_Witness ==
    /\ last.op = "get_OBS_modes"
    /\ last.args.instrument = ESPRESSO18
    /\ last.args.pipeline = V_3_0
    /\ last.data = TwoInstruments
    /\ last.exc = "Exception"

\* the other case of C8: an unknown instrument
C8_UnknownInstrument ==
    /\ last.op = "get_OBS_modes"
    /\ last.args.instrument = ESPRESSO
    /\ last.exc = "Exception"

\* ----------------------------------------------- properties of download_data

Downloaded == last.op = "download_data"

\* the mapping a download_data call works on; a call that ends before its
\* traversal has read none, and the mapping of the Star is then the one it
\* was to read
MappingOfCall == IF last.args.instrument = None THEN Star_data ELSE last.data

\* the letters str.upper() turns into each letter of 'HARPSN'
AliasLetters ==
    << {"H", "h"}, {"A", "a"}, {"R", "r"}, {"P", "p"}, {"S", "s", LONG_S}, {"N", "n"} >>

\* the requested instrument is 'HARPSN' once in upper case
AliasRequested ==
    /\ last.args.instrument # None
    /\ Len(last.args.instrument) = Len(AliasLetters)
    /\ \A k \in 1..Len(AliasLetters) : last.args.instrument[k] \in AliasLetters[k]

\* the instrument filter of the call once the alias is read as 'HARPN'
FilterOfCall == IF AliasRequested THEN HARPN ELSE last.args.instrument

\* the leaves the filters of the call match, first to last
MatchedByCall ==
    Ordered(Matched(MappingOfCall, FilterOfCall, last.args.OBS_mode,
                    last.args.pipe_identifier))

\* the remote files listed in those leaves, in order
Candidates ==
    concat([k \in 1..Len(MatchedByCall) |-> LeafAt(MappingOfCall, MatchedByCall[k]).raw_file])

\* a path with one component more, "" and "." adding nothing
Under(path, component) ==
    IF component \in {<<>>, <<".">>} THEN path ELSE path \o <<component>>

\* output_path/I/P for the file I/P/.../name, or output_path
DestinationOf(file) ==
    LET parts == split(file, SLASH)
    IN  IF last.args.allow_subfolders /\ Len(parts) >= 2
        THEN Under(Under(<<output>>, parts[1]), parts[2])
        ELSE <<output>>

\* the basename up to '.fits'
StemOf(basename) == split(basename, DOT_FITS)[1]

BasenameOf(file) == split(file, SLASH)[Len(split(file, SLASH))]

\* the destination tree held, before the call, a file with the candidate's stem
StemOnDisk(file) ==
    \E p \in last.args.fs.files :
        /\ is_under(p, DestinationOf(file))
        /\ StemOf(name_of(p)) = StemOf(BasenameOf(file))

\* the stem is a plain name: none of its characters is read as a pattern
PlainStem(file) ==
    \A k \in 1..Len(StemOf(BasenameOf(file))) :
        StemOf(BasenameOf(file))[k] \notin {"*", "?", "["}

\* the transfer calls of the call, in order
Transfers == SelectSeq(last.log, LAMBDA e : e.ev = "download_files")

Excluded(file) == \A j \in 1..Len(Transfers) : ~list_in(file, Transfers[j].files)

InBatchOfDestination(file) ==
    \E g \in 1..Len(last.value.groups) :
        /\ last.value.groups[g].k = DestinationOf(file)
        /\ list_in(file, last.value.groups[g].v)

IdempotentFor(file) ==
    /\ (~last.args.force_download /\ StemOnDisk(file)) => Excluded(file)
    /\ last.args.force_download => InBatchOfDestination(file)

Idempotent == \A k \in 1..Len(Candidates) : IdempotentFor(Candidates[k])

\* C1: in download_data, for every remote file listed in a leaf matched by
\* the filters: with force_download False and a file of the same stem already
\* in the destination directory tree, the candidate is in no batch handed to
\* the transfer client; with force_download True the candidate is in the batch
\* of its destination directory whatever is on disk.
C1_DownloadIsIdempotent == Downloaded => Idempotent

\* the call got through the loop that builds the batches
BatchesBuilt == last.exc \notin {"AttributeError", "ValueError", "KeyError"}

\* What holds of C1: the same, of every call that got to build its batches and
\* of every candidate whose stem is a plain name.
C1_IdempotentForPlainStems ==
    (Downloaded /\ BatchesBuilt)
    => \A k \in 1..Len(Candidates) :
          PlainStem(Candidates[k]) => IdempotentFor(Candidates[k])

\* a call that names an instrument skips a file it finds and transfers another
C1_SkipReached ==
    /\ Downloaded
    /\ BatchesBuilt
    /\ ~last.args.force_download
    /\ \E k \in 1..Len(Candidates) : StemOnDisk(Candidates[k]) /\ PlainStem(Candidates[k])
    /\ Len(Transfers) = 1

\* a forced call that names an instrument puts a file found on disk in a batch
C1_ForceReached ==
    /\ Downloaded
    /\ BatchesBuilt
    /\ last.args.force_download
    /\ \E k \in 1..Len(Candidates) :
          StemOnDisk(Candidates[k]) /\ InBatchOfDestination(Candidates[k])

\* the file 'a[1].fits' is on disk and
\* the call, which names its instrument and builds its batches, transfers it
\* again: its stem is read as the pattern 'a1'
C1_PatternStemTransferredAgain ==
    /\ Downloaded
    /\ last.args.instrument = HARPN
    /\ ~last.args.force_download
    /\ last.exc = "none"
    /\ \E k \in 1..Len(Candidates) :
          /\ BasenameOf(Candidates[k]) = a_1_fits
          /\ StemOnDisk(Candidates[k])
          /\ ~Excluded(Candidates[k])

\* a call that a file name ends after the first of the two leaves it matches,
\* before any batch is handed over
C1_EndedByAFileName ==
    /\ Downloaded
    /\ last.args.instrument = ESPRESSO
    /\ last.exc = "ValueError"
    /\ Len(last.value.walked) = 1
    /\ Len(MatchedByCall) = 2
    /\ Transfers = <<>>

\* a candidate survives when the test of line 140 does not skip it
Survives(file) ==
    ~already_on_disk(last.args.fs, DestinationOf(file), file, last.args.force_download)

Destinations == {DestinationOf(Candidates[k]) : k \in 1..Len(Candidates)}

\* the surviving files of one destination, in order
GroupOf(g) == SelectSeq(Candidates, LAMBDA f : DestinationOf(f) = g /\ Survives(f))

TransfersTo(g) ==
    {j \in 1..Len(last.log) : last.log[j].ev = "download_files" /\ last.log[j].path = g}

result_tar_gz == <<"r","e","s","u","l","t",".","t","a","r",".","g","z">>

Grouped ==
    /\ \A g \in Destinations :
          IF GroupOf(g) # <<>>
          THEN /\ Cardinality(TransfersTo(g)) = 1
               /\ \A j \in TransfersTo(g) :
                     /\ last.log[j].files = GroupOf(g)
                     /\ last.log[j].output_filename = result_tar_gz
                     /\ \E i \in 1..(j - 1) :
                           last.log[i].ev = "mkdir" /\ last.log[i].path = g
          ELSE TransfersTo(g) = {}
    /\ \A j \in 1..Len(last.log) :
          last.log[j].ev = "download_files" => last.log[j].path \in Destinations
    /\ ( /\ MappingOfCall = OneInstrument
         /\ last.args.fs = EmptyDisk
         /\ last.args.allow_subfolders
         /\ Candidates # <<>> )
       => last.value.groups =
             << [k |-> <<output, HARPN, V_1_0>>,
                 v |-> << remote(HARPN, V_1_0, HR, a_fits),
                          remote(HARPN, V_1_0, HR, b_fits) >>] >>

\* C2: with allow_subfolders True every surviving remote file I/P/.../name is
\* in the group output_path/I/P, with allow_subfolders False in the single
\* group output_path; for each group with a surviving file the destination is
\* ensured to exist and then exactly one transfer call carries exactly the
\* group's files under the name 'result.tar.gz'; a group without surviving
\* file triggers no transfer call. The mapping HARPN -> 1.0 -> HR with raw
\* files a.fits and b.fits and an empty destination gives the single group
\* output/HARPN/1.0 with both files.
C2_OneTransferPerGroup == Downloaded => Grouped

\* What holds of C2: the same, of every call that returns.
C2_GroupedWhenTheCallReturns == (Downloaded /\ last.exc = "none") => Grouped

\* a call that returns after one transfer to each of two destinations
C2_TwoGroupsReached ==
    /\ Downloaded
    /\ last.exc = "none"
    /\ Cardinality(Destinations) = 2
    /\ Len(Transfers) = 2

\* a call that an error of its unpacking ends before the transfer of its
\* second group
C2_SecondGroupNotTransferred ==
    /\ Downloaded
    /\ last.exc \in {"shutil.Error", "OSError"}
    /\ Len(last.value.groups) = 2
    /\ Len(Transfers) = 1

\* a call that a file where the directory of its group should be ends before
\* any transfer
C2_EndedByAFileInTheWay ==
    /\ Downloaded
    /\ last.exc = "NotADirectoryError"
    /\ last.args.fs = FileInTheWay
    /\ fs = FileInTheWay
    /\ Len(last.value.groups) = 1
    /\ Transfers = <<>>

\* a call whose group is beside output_path: the raw file names the parent
C2_WrittenBesideOutputPath ==
    /\ Downloaded
    /\ last.exc = "none"
    /\ cwd \o <<elsewhere, tar_name>> \in fs.files
    /\ \E j \in 1..Len(Transfers) : Transfers[j].path = <<output, DOTDOT, elsewhere>>

AliasWarnings == Len(SelectSeq(last.log, LAMBDA e : e.ev = "warning: HARPSN is HARPN"))

\* the leaves a call filtering on instrument walks
WalkedFor(instrument) ==
    LET leaves == Ordered(Matched(MappingOfCall, instrument, last.args.OBS_mode,
                                  last.args.pipe_identifier))
    IN  [k \in 1..Len(leaves) |-> KeysOf(MappingOfCall, leaves[k])]

WarnedFirst == AliasWarnings = 1 /\ last.log[1].ev = "warning: HARPSN is HARPN"

\* C9, as stated: a download_data call requesting instrument 'HARPSN' has its
\* filter rewritten to 'HARPN' before the traversal, so that it walks the
\* leaves a call with 'HARPN' walks, and warns of the alias exactly once; a
\* call requesting any other instrument does not warn at all.
C9_WarnsOnlyForHARPSN ==
    Downloaded
    => /\ last.args.instrument = HARPSN
             => (last.value.walked = WalkedFor(HARPN) /\ WarnedFirst)
       /\ last.args.instrument # HARPSN => AliasWarnings = 0

\* C9, amended: a download_data call requesting an instrument that is
\* 'HARPSN' once in upper case ('HARPSN' in any letter case) has its filter
\* rewritten to 'HARPN' before the traversal, so that it walks the leaves a
\* call with 'HARPN' walks, and warns of the alias exactly once, before
\* anything else; a call requesting any other instrument does not warn at all.
C9_AliasInAnyLetterCase ==
    Downloaded
    => /\ AliasRequested
             => (last.value.walked = WalkedFor(HARPN) /\ WarnedFirst)
       /\ ~AliasRequested => AliasWarnings = 0

\* 'harpsn' warns once and walks the two leaves of HARPN
C9_Witness ==
    /\ Downloaded
    /\ last.args.instrument = HARPSN_lower
    /\ AliasWarnings = 1
    /\ Len(last.value.walked) = 2
    /\ \A k \in 1..2 : last.value.walked[k][1] = HARPN

\* the case of C9 as stated: 'HARPSN' itself
C9_HARPSNReached ==
    /\ Downloaded
    /\ last.args.instrument = HARPSN
    /\ AliasWarnings = 1
    /\ last.value.walked = WalkedFor(HARPN)
    /\ Len(last.value.walked) = 2

\* a name that is 'HARPSN' in upper case without being it in any letter case
C9_LongSReached ==
    /\ Downloaded
    /\ last.args.instrument = HARPSN_long
    /\ AliasWarnings = 1
    /\ last.value.walked = WalkedFor(HARPN)
    /\ Len(last.value.walked) = 2

\* C10: download_data with the instrument filter absent (None, the default)
\* restricts no instrument: it reaches the traversal and walks every leaf
\* that matches the OBS_mode and pipe_identifier filters, and does not end in
\* an error before any leaf is visited.
C10_AbsentInstrumentWalksEveryLeaf ==
    (Downloaded /\ last.args.instrument = None)
    => /\ last.exc # "AttributeError"
       /\ last.value.walked = WalkedFor(None)

\* What the code does of C10: the call ends at once, with nothing read,
\* walked, transferred or written.
C10_AbsentInstrumentEndsTheCall ==
    (Downloaded /\ last.args.instrument = None)
    => /\ last.exc = "AttributeError"
       /\ last.value.walked = <<>>
       /\ last.log = <<>>
       /\ fs = last.args.fs

============================================================================
